---------------------------- MODULE Spec2Model ----------------------------
(***************************************************************************)
(* A model of the solana-swap client: the history chain that updatePool    *)
(* and updateTokenAccountInfo build on the tracked pool / token account,   *)
(* the serialized form of a TokenAccount, and the parameter validation of  *)
(* the pool and token API.                                                 *)
(*                                                                         *)
(* Entities live in a heap (a sequence of records, an object's identity is *)
(* its index), so that in-place mutation and aliasing are visible.         *)
(***************************************************************************)
EXTENDS Integers, Sequences, FiniteSets, TLC

(* ------------------------------ bounds --------------------------------- *)

\* highest ledger slot the chain reaches in a run
MaxSlot == 2

\* number of update calls (updatePool / updateTokenAccountInfo) started in a run
MaxCalls == 3

(* --------------------------- state variables --------------------------- *)

VARIABLES
  heap,       \* the OnChainEntity objects: Seq of [kind, address, lastUpdatedSlot, previous]
  slot,       \* the ledger position the chain is at
  calls,      \* every update call started so far, with where it stands
  callbacks,  \* the snapshots the listener callbacks were invoked with, in order
  walletAccount, \* a wallet token account as a value, with its chain of previous snapshots
  persisted,  \* the serialized form kept in the UI state (<<>> while there is none)
  source,     \* the token account `persisted` was serialized from
  restored,   \* the token account rebuilt from `persisted` (<<>> while there is none)
  lastCall,   \* the last pool / token API call: its parameters, result and effects
  knownPools, \* poolConfigForCluster.pools, the known pool addresses
  swapAccounts, \* the swap accounts the chain holds for the swap program
  confirmations, \* every confirmTransaction call: its two sources and its promise
  wallet,     \* the singleton wallet of the wallet API (NoWallet while null)
  connection, \* the singleton connection: the cluster it is for ("none" while null)
  wallets,    \* every wallet object createWallet has made
  currentCluster, \* the cluster getConnection() without argument is for ("none" while undefined)
  transactions, \* every sendTransaction call started, with where it stands
  calc,       \* the last pricing / amount calculation: its inputs and its result
  global,     \* the state of the global slice: loading, error, availableTokens, epochInfo
  thunks      \* every async thunk dispatched so far: its type and where it stands

histVars == <<heap, slot, calls, callbacks>>
serVars == <<walletAccount, persisted, source, restored>>
apiVars == <<lastCall, knownPools, swapAccounts>>

confVars == <<confirmations>>
walletVars == <<wallet, connection, wallets, transactions, currentCluster>>
calcVars == <<calc>>
globalVars == <<global, thunks>>
extVars == <<confVars, walletVars, calcVars, globalVars>>

vars == <<histVars, serVars, apiVars, extVars>>

(* ------------------------- OnChainEntity -------------------------------- *)

\* `previous` of an entity that has none (previous?: T is undefined)
NoEntity == 0

\* new Pool(address, ..., lastUpdatedSlot) / new TokenAccount(mint, address, balance, slot):
\* the constructor's currentSlot and (absent) previous
Entity(kind, address, currentSlot) ==
  [kind |-> kind, address |-> address, lastUpdatedSlot |-> currentSlot,
   previous |-> NoEntity]

getPrevious(h, e) == h[e].previous

setPrevious(h, e, p) == [h EXCEPT ![e].previous = p]

\* (variant) the new link keeps the previous it came with
addToHistory_NoTransplant(h, e, n) == setPrevious(h, e, n)

\* the entity's existing previous is transplanted onto the new link, then the
\* new link becomes the entity's previous
addToHistory(h, e, n) ==
  LET h1 == setPrevious(h, n, getPrevious(h, e))
  IN  setPrevious(h1, e, n)

\* a shallow, structurally equal copy: a new object with the same fields
clone(h, e) == Append(h, h[e])

\* the identity the next constructed object gets
NewId(h) == Len(h) + 1


(* --------------------- walking the history chain ------------------------ *)

RECURSIVE ChainFrom(_, _, _)
\* the entities met by following previous from e (e excluded), newest link
\* first; `fuel` bounds the walk by the number of objects
ChainFrom(h, e, fuel) ==
  IF fuel = 0 \/ getPrevious(h, e) = NoEntity
  THEN <<>>
  ELSE <<getPrevious(h, e)>> \o ChainFrom(h, getPrevious(h, e), fuel - 1)

Chain(h, e) == ChainFrom(h, e, Len(h))

Range(s) == {s[i] : i \in DOMAIN s}

\* same on-chain data (what a shallow copy shares with its source)
SameData(x, y) ==
  /\ x.kind = y.kind
  /\ x.address = y.address
  /\ x.lastUpdatedSlot = y.lastUpdatedSlot

(* --------------------------- the update calls --------------------------- *)

\* the pool and the token account the listeners were registered for
originalPool == 1
originalAccount == 2

Call(api, arg, listener) ==
  [api |-> api, arg |-> arg, listener |-> listener, st |-> "fetching",
   slot |-> 0, result |-> NoEntity, stored |-> NoEntity, mintLookups |-> 0]

Returned(api) ==
  {c \in DOMAIN calls : calls[c].api = api /\ calls[c].st = "returned"}

\* the snapshots earlier updates returned to the application
Held(api) == {calls[c].result : c \in Returned(api)}

\* getPool, from `new Pool(...)` on: the snapshot built from the fetched data;
\* its lastUpdatedSlot is the context slot of the token A account read
getPool(h, address, fetchedSlot) == Append(h, Entity("pool", address, fetchedSlot))

\* what getParsedAccountInfo can answer for an address: no account (value
\* null), an account whose data is left as a Buffer, a parsed account of
\* another kind (its parsed info has no mint), a parsed token account
AccountValues == {"none", "buffer", "parsedOther", "parsedTokenAccount"}

\* path(["data", "parsed", "info"], value): <<>> stands for undefined
extractParsedTokenAccountInfo(value) ==
  CASE value = "parsedTokenAccount" -> << [mint |-> <<"mint">>] >>
    [] value = "parsedOther" -> << [mint |-> <<>>] >>
    [] OTHER -> <<>>

\* tokenAccountInfo up to `await tokenInfo(new PublicKey(parsedInfo.mint))`:
\* the outcomes and the number of tokenInfo calls made.  With parsed info that
\* has no mint, `new PublicKey(undefined)` throws, or gives a key at which
\* tokenInfo finds no mint and rejects, depending on the library
tokenAccountInfoRead(value) ==
  LET parsedInfo == extractParsedTokenAccountInfo(value)
  IN  IF parsedInfo = <<>> THEN {[outcome |-> "null", mintLookups |-> 0]}
      ELSE IF parsedInfo[1].mint = <<>>
           THEN {[outcome |-> "failed", mintLookups |-> n] : n \in 0..1}
           ELSE {[outcome |-> "fetched", mintLookups |-> 1]}

\* tokenAccountInfo, from `new TokenAccount(...)` on
tokenAccountInfo(h, account, fetchedSlot) ==
  Append(h, Entity("account", account, fetchedSlot))

\* (variant) the returned object itself is put in the history, uncloned
updatePool_NoClone(h, pool, fetchedSlot) ==
  LET updatedPool == NewId(h)
      h1 == getPool(h, h[pool].address, fetchedSlot)
      previous == IF getPrevious(h1, pool) # NoEntity
                  THEN getPrevious(h1, pool) ELSE pool
      h2 == setPrevious(h1, updatedPool, previous)
      h4 == addToHistory(h2, pool, updatedPool)
  IN  [heap |-> h4, result |-> updatedPool, stored |-> updatedPool]

\* (variant) the returned snapshot's previous is always the pool passed in
updatePool_PreviousIsPool(h, pool, fetchedSlot) ==
  LET updatedPool == NewId(h)
      h1 == getPool(h, h[pool].address, fetchedSlot)
      h2 == setPrevious(h1, updatedPool, pool)
      copy == NewId(h2)
      h3 == clone(h2, updatedPool)
      h4 == addToHistory(h3, pool, copy)
  IN  [heap |-> h4, result |-> updatedPool, stored |-> copy]

\* (variant) the copy replaces the pool's history instead of extending it
updatePool_Truncating(h, pool, fetchedSlot) ==
  LET updatedPool == NewId(h)
      h1 == getPool(h, h[pool].address, fetchedSlot)
      copy == NewId(h1)
      h2 == clone(h1, updatedPool)
      previous == IF getPrevious(h2, pool) # NoEntity
                  THEN getPrevious(h2, pool) ELSE pool
      h3 == setPrevious(h2, updatedPool, previous)
      h4 == setPrevious(h3, pool, copy)
  IN  [heap |-> h4, result |-> updatedPool, stored |-> copy]

\* (variant) the copy is attached with setPrevious instead of addToHistory
updatePool_SetsPrevious(h, pool, fetchedSlot) ==
  LET updatedPool == NewId(h)
      h1 == getPool(h, h[pool].address, fetchedSlot)
      previous == IF getPrevious(h1, pool) # NoEntity
                  THEN getPrevious(h1, pool) ELSE pool
      h2 == setPrevious(h1, updatedPool, previous)
      copy == NewId(h2)
      h3 == clone(h2, updatedPool)
      h4 == setPrevious(h3, pool, copy)
  IN  [heap |-> h4, result |-> updatedPool, stored |-> copy]

\* updatePool after `await getPool(pool.address)` has resolved:
\* [heap, result (the returned updatedPool), stored (the clone put in history)]
updatePool(h, pool, fetchedSlot) ==
  LET updatedPool == NewId(h)
      h1 == getPool(h, h[pool].address, fetchedSlot)
      previous == IF getPrevious(h1, pool) # NoEntity
                  THEN getPrevious(h1, pool) ELSE pool
      h2 == setPrevious(h1, updatedPool, previous)
      copy == NewId(h2)
      h3 == clone(h2, updatedPool)
      h4 == addToHistory(h3, pool, copy)
  IN  [heap |-> h4, result |-> updatedPool, stored |-> copy]

\* (variant) the token account is treated as updatePool treats the pool
updateTokenAccountInfo_AddsToHistory(h, tokenAccount, fetchedSlot) ==
  LET updatedTokenAccount == NewId(h)
      h1 == tokenAccountInfo(h, h[tokenAccount].address, fetchedSlot)
      h2 == setPrevious(h1, updatedTokenAccount, tokenAccount)
      copy == NewId(h2)
      h3 == clone(h2, updatedTokenAccount)
      h4 == addToHistory(h3, tokenAccount, copy)
  IN  [heap |-> h4, result |-> updatedTokenAccount, stored |-> copy]

\* updateTokenAccountInfo after `await tokenAccountInfo(address)` resolved to a
\* token account
updateTokenAccountInfo(h, tokenAccount, fetchedSlot) ==
  LET updatedTokenAccount == NewId(h)
      h1 == tokenAccountInfo(h, h[tokenAccount].address, fetchedSlot)
      h2 == setPrevious(h1, updatedTokenAccount, tokenAccount)
  IN  [heap |-> h2, result |-> updatedTokenAccount, stored |-> NoEntity]

\* (variant) the callback runs whether or not updatePool threw
poolUpdatedHandler_Always(cbs, call, outcome, updatedPool) ==
  IF call.listener THEN Append(cbs, updatedPool) ELSE cbs

\* the POOL_UPDATED_EVENT handler after `await updatePool(event.pool)`:
\* callback(updatedPool) runs only if the await did not throw
poolUpdatedHandler(cbs, call, outcome, updatedPool) ==
  IF call.listener /\ outcome = "returned" THEN Append(cbs, updatedPool) ELSE cbs

\* the ACCOUNT_UPDATED_EVENT handler after `await updateTokenAccountInfo(..)`:
\* if (updatedAccount) callback(updatedAccount)
accountUpdatedHandler(cbs, call, outcome, updatedAccount) ==
  IF call.listener /\ outcome = "returned" /\ updatedAccount # NoEntity
  THEN Append(cbs, updatedAccount) ELSE cbs

(* ------------------------------ actions --------------------------------- *)

\* the tracked pool and token account as first fetched, no update made yet
HistInit ==
  /\ heap = << Entity("pool", "poolAddress", 0),
               Entity("account", "accountAddress", 0) >>
  /\ slot = 0
  /\ calls = <<>>
  /\ callbacks = <<>>

\* the pool listener emits POOL_UPDATED_EVENT for the pool it listens to: the
\* handler calls updatePool(event.pool), which suspends in getPool
PoolUpdatedEvent ==
  /\ Len(calls) < MaxCalls
  /\ calls' = Append(calls, Call("updatePool", originalPool, TRUE))
  /\ UNCHANGED <<heap, slot, callbacks, serVars, apiVars, extVars>>

\* the application calls updatePool(pool) on a snapshot an earlier update gave it
CallUpdatePool(pool) ==
  /\ Len(calls) < MaxCalls
  /\ pool \in Held("updatePool")
  /\ calls' = Append(calls, Call("updatePool", pool, FALSE))
  /\ UNCHANGED <<heap, slot, callbacks, serVars, apiVars, extVars>>

AccountUpdatedEvent ==
  /\ Len(calls) < MaxCalls
  /\ calls' = Append(calls, Call("updateTokenAccountInfo", originalAccount, TRUE))
  /\ UNCHANGED <<heap, slot, callbacks, serVars, apiVars, extVars>>

CallUpdateTokenAccountInfo(account) ==
  /\ Len(calls) < MaxCalls
  /\ account \in Held("updateTokenAccountInfo")
  /\ calls' = Append(calls, Call("updateTokenAccountInfo", account, FALSE))
  /\ UNCHANGED <<heap, slot, callbacks, serVars, apiVars, extVars>>

\* the chain answers the account read of a suspended fetch; the answer carries
\* the slot the chain has reached by then (the ledger position never goes back)
FetchAnswered(c, reached) ==
  /\ calls[c].st = "fetching"
  /\ reached >= slot
  /\ slot' = reached
  /\ calls' = [calls EXCEPT ![c].st = "fetched", ![c].slot = reached,
                            ![c].mintLookups =
                              IF calls[c].api = "updateTokenAccountInfo"
                              THEN (CHOOSE out \in tokenAccountInfoRead("parsedTokenAccount") : TRUE).mintLookups
                              ELSE 0]
  /\ UNCHANGED <<heap, callbacks, serVars, apiVars, extVars>>

\* the fetch throws (an RPC failure, or getPool's "Error collecting pool
\* data"): the rejection passes through updatePool / updateTokenAccountInfo
\* and through the listener's handler
FetchFailed(c) ==
  /\ calls[c].st = "fetching"
  /\ calls' = [calls EXCEPT ![c].st = "failed"]
  /\ callbacks' =
       IF calls[c].api = "updatePool"
       THEN poolUpdatedHandler(callbacks, calls[c], "failed", NoEntity)
       ELSE accountUpdatedHandler(callbacks, calls[c], "failed", NoEntity)
  /\ UNCHANGED <<heap, slot, serVars, apiVars, extVars>>

\* the address does not hold a parsed token account: tokenAccountInfo returns
\* null where there is no parsed info, and so does updateTokenAccountInfo
FetchedNoTokenAccount(c, value) ==
  /\ calls[c].st = "fetching"
  /\ calls[c].api = "updateTokenAccountInfo"
  /\ value # "parsedTokenAccount"
  /\ \E out \in tokenAccountInfoRead(value) :
       /\ calls' = [calls EXCEPT ![c].st = out.outcome,
                                 ![c].mintLookups = out.mintLookups]
       /\ callbacks' =
            accountUpdatedHandler(callbacks, calls[c],
              IF out.outcome = "null" THEN "returned" ELSE "failed", NoEntity)
  /\ UNCHANGED <<heap, slot, serVars, apiVars, extVars>>

\* getPool has resolved: the rest of updatePool runs without suspending, then
\* the listener's handler, if the call came from it
UpdatePoolReturns(c) ==
  /\ calls[c].st = "fetched"
  /\ calls[c].api = "updatePool"
  /\ LET out == updatePool(heap, calls[c].arg, calls[c].slot)
     IN  /\ heap' = out.heap
         /\ calls' = [calls EXCEPT ![c].st = "returned",
                                   ![c].result = out.result,
                                   ![c].stored = out.stored]
         /\ callbacks' = poolUpdatedHandler(callbacks, calls[c], "returned", out.result)
  /\ UNCHANGED <<slot, serVars, apiVars, extVars>>

UpdateTokenAccountInfoReturns(c) ==
  /\ calls[c].st = "fetched"
  /\ calls[c].api = "updateTokenAccountInfo"
  /\ LET out == updateTokenAccountInfo(heap, calls[c].arg, calls[c].slot)
     IN  /\ heap' = out.heap
         /\ calls' = [calls EXCEPT ![c].st = "returned",
                                   ![c].result = out.result,
                                   ![c].stored = out.stored]
         /\ callbacks' = accountUpdatedHandler(callbacks, calls[c], "returned", out.result)
  /\ UNCHANGED <<slot, serVars, apiVars, extVars>>

Next ==
  \/ PoolUpdatedEvent
  \/ \E pool \in DOMAIN heap : CallUpdatePool(pool)
  \/ AccountUpdatedEvent
  \/ \E account \in DOMAIN heap : CallUpdateTokenAccountInfo(account)
  \/ \E c \in DOMAIN calls : \E reached \in 0..MaxSlot : FetchAnswered(c, reached)
  \/ \E c \in DOMAIN calls : FetchFailed(c)
  \/ \E c \in DOMAIN calls : \E value \in AccountValues : FetchedNoTokenAccount(c, value)
  \/ \E c \in DOMAIN calls : UpdatePoolReturns(c)
  \/ \E c \in DOMAIN calls : UpdateTokenAccountInfoReturns(c)



(* ------------------- the history chain: C1 .. C7 ------------------------ *)

\* the steps in which the rest of updatePool / updateTokenAccountInfo runs
ReturnsNow(c, api) ==
  /\ calls[c].api = api
  /\ calls[c].st = "fetched"
  /\ calls'[c].st = "returned"

\* the successful updatePool calls made on entity e
UpdatesOf(e) == {c \in Returned("updatePool") : calls[c].arg = e}

\* C1: starting from an entity with no previous (the pool the listener was
\* registered for), after k successful updates of it, following previous
\* exactly k times reaches the end of its chain, the chain holds exactly the k
\* snapshots the updates inserted, and the snapshot an update returned is an
\* object that is in no history chain and is not the one it stored.
C1_HistoryKeepsAllSnapshots ==
  LET done == UpdatesOf(originalPool)
      chain == Chain(heap, originalPool)
      last == IF chain = <<>> THEN originalPool ELSE chain[Len(chain)]
  IN  /\ Len(chain) = Cardinality(done)
      /\ getPrevious(heap, last) = NoEntity
      /\ Range(chain) = {calls[c].stored : c \in done}
      /\ \A c \in Returned("updatePool") :
           /\ calls[c].result # calls[c].stored
           /\ \A e \in DOMAIN heap : calls[c].result \notin Range(Chain(heap, e))

C1_Witness ==
  /\ Cardinality(UpdatesOf(originalPool)) >= 2
  /\ Len(Chain(heap, originalPool)) >= 2

\* C2: E.addToHistory(N), as updatePool calls it with E the updated pool and N
\* the fresh copy: afterwards E.previous = N and N.previous = P, the previous
\* E had before; the previous N carried is replaced; nothing else of E or N
\* changes, and no other existing object changes.
C2_AddToHistoryOrdering ==
  [][\A c \in DOMAIN calls : ReturnsNow(c, "updatePool") =>
       LET E == calls[c].arg
           N == calls'[c].stored
           P == getPrevious(heap, E)
       IN  /\ heap'[E] = [heap[E] EXCEPT !.previous = N]
           /\ heap'[N] = [heap'[calls'[c].result] EXCEPT !.previous = P]
           /\ \A o \in DOMAIN heap \ {E} : heap'[o] = heap[o]]_vars

\* an update of a pool that already had a previous has completed
C2_Witness ==
  \E c \in Returned("updatePool") : getPrevious(heap, calls[c].stored) # NoEntity

\* C3 (as amended): a successful updatePool(pool) returns a newly built
\* snapshot carrying the fetched slot, which is not `pool`; afterwards
\* pool.getPrevious() is a fresh copy of it; and the returned snapshot's
\* previous is `pool` itself when pool had no previous, and otherwise the
\* previous pool had when updatePool resumed (the copy stored by the update
\* before), not the state of `pool`.
C3_UpdatePoolResult ==
  [][\A c \in DOMAIN calls : ReturnsNow(c, "updatePool") =>
       LET pool == calls[c].arg
           updated == calls'[c].result
           head == getPrevious(heap', pool)
       IN  /\ updated \notin DOMAIN heap
           /\ updated # pool
           /\ heap'[updated].lastUpdatedSlot = calls[c].slot
           /\ heap'[updated].address = heap[pool].address
           /\ head \notin DOMAIN heap
           /\ head # updated
           /\ SameData(heap'[head], heap'[updated])
           /\ getPrevious(heap', updated) =
                IF getPrevious(heap, pool) # NoEntity
                THEN getPrevious(heap, pool) ELSE pool]_vars

\* a later update of the same original pool has returned
C3_Witness ==
  \E c \in UpdatesOf(originalPool) :
    /\ getPrevious(heap, calls[c].result) # originalPool
    /\ heap[getPrevious(heap, calls[c].result)].lastUpdatedSlot
         # heap[originalPool].lastUpdatedSlot

\* C3 as stated: the returned snapshot's previous holds the state the pool
\* had before the update, on the first and on every later update.
C3_Original ==
  [][\A c \in DOMAIN calls : ReturnsNow(c, "updatePool") =>
       LET pool == calls[c].arg
           updated == calls'[c].result
       IN  /\ updated # pool
           /\ SameData(heap'[getPrevious(heap', pool)], heap'[updated])
           /\ getPrevious(heap', updated) \in DOMAIN heap
           /\ heap[getPrevious(heap', updated)] = heap[pool]]_vars

\* C4 (as amended): a successful updateTokenAccountInfo(account) returns a
\* newly built snapshot whose previous is the passed account; it does not add
\* to the passed account's history: the account and every other existing
\* object are left as they were.
C4_UpdateTokenAccountResult ==
  [][\A c \in DOMAIN calls : ReturnsNow(c, "updateTokenAccountInfo") =>
       LET account == calls[c].arg
           updated == calls'[c].result
       IN  /\ updated \notin DOMAIN heap
           /\ heap'[updated].lastUpdatedSlot = calls[c].slot
           /\ heap'[updated].address = heap[account].address
           /\ getPrevious(heap', updated) = account
           /\ \A o \in DOMAIN heap : heap'[o] = heap[o]
           /\ Len(heap') = Len(heap) + 1]_vars

C4_Witness ==
  \E c \in Returned("updateTokenAccountInfo") :
    /\ calls[c].arg = originalAccount
    /\ calls[c].listener
    /\ getPrevious(heap, calls[c].result) = originalAccount
    /\ getPrevious(heap, originalAccount) = NoEntity

\* C4 as stated: the returned snapshot's previous is the passed account, and
\* the passed account's getPrevious() exposes (a copy of) the new snapshot.
C4_Original ==
  [][\A c \in DOMAIN calls : ReturnsNow(c, "updateTokenAccountInfo") =>
       LET account == calls[c].arg
           updated == calls'[c].result
       IN  /\ getPrevious(heap', updated) = account
           /\ getPrevious(heap', account) # NoEntity
           /\ SameData(heap'[getPrevious(heap', account)], heap'[updated])]_vars

\* C5: when the fetch of an update fails, the call ends with the error, no
\* object changes (so every previous pointer and chain is as before), the
\* listener callback is not invoked, and no other fetch is started.
C5_FailedUpdateChangesNothing ==
  [][\A c \in DOMAIN calls :
       (calls[c].st = "fetching" /\ calls'[c].st = "failed") =>
         /\ heap' = heap
         /\ callbacks' = callbacks
         /\ Len(calls') = Len(calls)
         /\ calls'[c] = [calls[c] EXCEPT !.st = "failed",
                                         !.mintLookups = calls'[c].mintLookups]
         /\ \A d \in DOMAIN calls \ {c} : calls'[d] = calls[d]]_vars

\* a listener-started update of a pool with history has failed, and so has
\* one of the token account
C5_Witness ==
  /\ \E c \in DOMAIN calls :
       /\ calls[c].st = "failed" /\ calls[c].listener
       /\ calls[c].api = "updatePool"
       /\ getPrevious(heap, calls[c].arg) # NoEntity
  /\ \E c \in DOMAIN calls :
       /\ calls[c].st = "failed" /\ calls[c].listener
       /\ calls[c].api = "updateTokenAccountInfo"

\* the update of e that completed last (objects are numbered as they are made)
LastUpdateOf(e) ==
  CHOOSE c \in UpdatesOf(e) :
    \A d \in UpdatesOf(e) : calls[d].stored <= calls[c].stored

\* C6: whatever the order in which overlapping updatePool calls on one pool
\* complete, the pool's previous is the copy of the snapshot of the update that
\* completed last, and the copy of every update's snapshot is in the pool's
\* chain exactly once.
C6_OverlappingUpdates ==
  \A e \in DOMAIN heap :
    UpdatesOf(e) # {} =>
      LET chain == Chain(heap, e)
          last == LastUpdateOf(e)
      IN  /\ getPrevious(heap, e) = calls[last].stored
          /\ SameData(heap[calls[last].stored], heap[calls[last].result])
          /\ \A c \in UpdatesOf(e) :
               /\ Cardinality({i \in DOMAIN chain : chain[i] = calls[c].stored}) = 1
               /\ SameData(heap[calls[c].stored], heap[calls[c].result])

\* two updates of the original pool overlapped: the one started later
\* completed first, with the newer data
C6_Witness ==
  \E c, d \in UpdatesOf(originalPool) :
    /\ c < d
    /\ calls[d].result < calls[c].result
    /\ calls[c].slot < calls[d].slot

\* C7 as stated: from the tracked pool, the tracked account and every
\* snapshot an update returned, walking previous never meets a higher
\* lastUpdatedSlot than the one just left.
C7_NewestToOldest ==
  \A e \in {originalPool, originalAccount}
             \cup Held("updatePool") \cup Held("updateTokenAccountInfo") :
    LET walk == <<e>> \o Chain(heap, e)
    IN  \A i \in 1..(Len(walk) - 1) :
          heap[walk[i + 1]].lastUpdatedSlot <= heap[walk[i]].lastUpdatedSlot

(* ---------------- addresses that are no token account: C11 -------------- *)

\* C11 as stated: whenever the account read of an update finds something that
\* is not a parsed token account (no account, or an account of another kind),
\* the call ends with null, no error is raised, tokenInfo is not called, and
\* the listener's callback is not invoked.
C11_NotATokenAccountGivesNull ==
  [][\A c \in DOMAIN calls : \A value \in AccountValues :
       FetchedNoTokenAccount(c, value) =>
         /\ calls'[c].st = "null"
         /\ calls'[c].mintLookups = 0
         /\ callbacks' = callbacks]_vars

(* --------------- TokenAccount.serialize / TokenAccount.from ------------- *)

\* longest chain of previous snapshots a token account gets in a run
MaxHistory == 2

RECURSIVE Digits(_, _)
\* the digits of a natural number in a base, most significant first
Digits(n, base) ==
  IF n < base THEN <<n>> ELSE Append(Digits(n \div base, base), n % base)

RECURSIVE FromDigits(_, _)
FromDigits(ds, base) ==
  IF ds = <<>> THEN 0
  ELSE FromDigits(SubSeq(ds, 1, Len(ds) - 1), base) * base + ds[Len(ds)]

\* PublicKey.toBase58() and new PublicKey(string); a key is the number its
\* bytes spell
toBase58(key) == Digits(key, 58)
PublicKey(str) == FromDigits(str, 58)

\* Decimal.toString() and new Decimal(string), on the integer amounts the
\* chain reports
Decimal_toString(d) == Digits(d, 10)
Decimal(str) == FromDigits(str, 10)

\* toDecimal(num) = new Decimal("" + num)
toDecimal(num) == Decimal(Decimal_toString(num))

\* an optional value is <<>> (undefined) or <<v>>
Token(address, decimals, supply, mintAuthority, name, symbol) ==
  [address |-> address, decimals |-> decimals, supply |-> toDecimal(supply),
   mintAuthority |-> mintAuthority, name |-> name, symbol |-> symbol]

Token_serialize(t) ==
  [address |-> toBase58(t.address),
   decimals |-> t.decimals,
   supply |-> Decimal_toString(t.supply),
   mintAuthority |-> IF t.mintAuthority = <<>> THEN <<>>
                     ELSE <<toBase58(t.mintAuthority[1])>>,
   name |-> t.name,
   symbol |-> t.symbol]

Token_from(serializableToken) ==
  LET mintAuthority == IF serializableToken.mintAuthority = <<>> THEN <<>>
                       ELSE <<PublicKey(serializableToken.mintAuthority[1])>>
  IN  Token(PublicKey(serializableToken.address),
            serializableToken.decimals,
            Decimal(serializableToken.supply),
            mintAuthority,
            serializableToken.name,
            serializableToken.symbol)

TokenAccount(mint, address, balance, currentSlot, previous) ==
  [mint |-> mint, address |-> address, balance |-> toDecimal(balance),
   lastUpdatedSlot |-> currentSlot, previous |-> previous]

RECURSIVE TokenAccount_serialize(_)
TokenAccount_serialize(t) ==
  [mint |-> Token_serialize(t.mint),
   address |-> toBase58(t.address),
   balance |-> Decimal_toString(t.balance),
   lastUpdatedSlot |-> t.lastUpdatedSlot,
   previous |-> IF t.previous = <<>> THEN <<>>
                ELSE <<TokenAccount_serialize(t.previous[1])>>]

\* (variant) only the head is rebuilt, its history is dropped
TokenAccount_from_HeadOnly(serializableTokenAccount) ==
  TokenAccount(Token_from(serializableTokenAccount.mint),
               PublicKey(serializableTokenAccount.address),
               Decimal(serializableTokenAccount.balance),
               serializableTokenAccount.lastUpdatedSlot,
               <<>>)

RECURSIVE TokenAccount_from(_)
TokenAccount_from(serializableTokenAccount) ==
  TokenAccount(Token_from(serializableTokenAccount.mint),
               PublicKey(serializableTokenAccount.address),
               Decimal(serializableTokenAccount.balance),
               serializableTokenAccount.lastUpdatedSlot,
               IF serializableTokenAccount.previous = <<>> THEN <<>>
               ELSE <<TokenAccount_from(serializableTokenAccount.previous[1])>>)

RECURSIVE Links(_)
\* a token account and its previous snapshots, newest first
Links(t) == IF t.previous = <<>> THEN <<t>> ELSE <<t>> \o Links(t.previous[1])

\* the mints, addresses and balances the runs draw from
SomeTokens ==
  { Token(7, 2, 1000, <<61>>, <<"USD Coin">>, <<"USDC">>),
    Token(3500, 9, 0, <<>>, <<>>, <<>>) }
SomeAddresses == {12, 4000}
SomeBalances == {0, 15, 1200}

\* a token account of the wallet: getAccountsForWallet builds it without a
\* slot, tokenAccountInfo with the slot of the read
SerInit ==
  /\ walletAccount \in { TokenAccount(m, a, b, s, <<>>) :
                     m \in SomeTokens, a \in SomeAddresses,
                     b \in SomeBalances, s \in {<<>>, <<0>>} }
  /\ persisted = <<>>
  /\ source = <<>>
  /\ restored = <<>>

SerIdle ==
  /\ walletAccount = TokenAccount(Token(7, 2, 1000, <<>>, <<>>, <<>>), 12, 0, <<>>, <<>>)
  /\ persisted = <<>>
  /\ source = <<>>
  /\ restored = <<>>

\* updateTokenAccountInfo on the account: a new snapshot of the same address
\* whose previous is the account
AccountRefreshed(balance, currentSlot) ==
  /\ Len(Links(walletAccount)) <= MaxHistory
  /\ walletAccount' = TokenAccount(walletAccount.mint, walletAccount.address, balance,
                             <<currentSlot>>, <<walletAccount>>)
  /\ UNCHANGED <<persisted, source, restored, histVars, apiVars, extVars>>

\* the account is put in the UI state in its plain-data form
Persist ==
  /\ persisted' = <<TokenAccount_serialize(walletAccount)>>
  /\ source' = <<walletAccount>>
  /\ restored' = <<>>
  /\ UNCHANGED <<walletAccount, histVars, apiVars, extVars>>

\* the account is rebuilt from the plain-data form
Restore ==
  /\ persisted # <<>>
  /\ restored = <<>>
  /\ restored' = <<TokenAccount_from(persisted[1])>>
  /\ UNCHANGED <<walletAccount, persisted, source, histVars, apiVars, extVars>>

SerNext ==
  \/ \E b \in SomeBalances : \E s \in {1, 2} : AccountRefreshed(b, s)
  \/ Persist
  \/ Restore

\* C8: TokenAccount.from(t.serialize()) has the address, balance, mint and
\* lastUpdatedSlot of t, and its chain of previous snapshots has the length of
\* t's chain and the same field values link by link.
C8_SerializeRoundTrip ==
  restored # <<>> =>
    LET was == Links(source[1])
        now == Links(restored[1])
    IN  /\ Len(now) = Len(was)
        /\ \A i \in DOMAIN was :
             /\ now[i].address = was[i].address
             /\ now[i].balance = was[i].balance
             /\ now[i].mint = was[i].mint
             /\ now[i].lastUpdatedSlot = was[i].lastUpdatedSlot

\* an account with two previous snapshots, of a mint with an authority and a
\* name, went through serialize and from
C8_Witness ==
  /\ restored # <<>>
  /\ Len(Links(source[1])) = 3
  /\ source[1].mint.mintAuthority # <<>>
  /\ source[1].balance = 1200
  /\ Len(persisted[1].balance) = 4
  /\ Len(persisted[1].address) > 1

(* ------------- the pool and token API: parameter validation ------------- *)

\* number of pools createPool adds to the known pools in a run
MaxCreatedPools == 1

\* the mints of the runs: Token objects, of which the address and the mint
\* authority matter here
MintOf(address, mintAuthority) ==
  [address |-> address, mintAuthority |-> mintAuthority]

SomeMints ==
  { MintOf("mintA", <<"walletKey">>), MintOf("mintB", <<"otherKey">>),
    MintOf("mintX", <<>>), MintOf("mintLP", <<"authority">>) }

MintAt(address) == CHOOSE m \in SomeMints : m.address = address

\* a token account passed as a parameter; an optional one is <<>> or <<acct>>
AccountOf(mint) == [mint |-> mint]
SomeAccounts == {AccountOf(m) : m \in SomeMints}
OptionalAccounts == {<<>>} \cup {<<a>> : a \in SomeAccounts}

\* the pools of the cluster's configuration
SomePools ==
  { [address |-> 1, tokenA |-> AccountOf(MintAt("mintA")),
     tokenB |-> AccountOf(MintAt("mintB")), poolToken |-> MintAt("mintLP")] }

\* the swap accounts of the configured pools: the mints of their two token
\* accounts and their pool token
SwapAccountsOf(pools) ==
  { [address |-> p.address, tokenAccountA |-> p.tokenA.mint,
     tokenAccountB |-> p.tokenB.mint, poolToken |-> p.poolToken] : p \in pools }

\* the connected wallet
getWallet == [pubkey |-> "walletKey"]

\* Token.equals: by address
Token_equals(t, other) == t.address = other.address

\* TokenAccount.sameToken
sameToken(a, other) == Token_equals(a.mint, other.mint)

\* one thing an API call does outside itself or builds: a chain read, an
\* account creation, an instruction, a signature request and submission
Step(step, on) == [step |-> step, on |-> on]

\* the steps that wait for the chain or the wallet, and so can fail
FailableSteps ==
  {"createAccountForToken", "createToken", "transferA", "transferB", "transfers",
   "makeNewAccountInstruction", "makeTransaction", "sendTransaction", "getPool"}

Thrown(error, pools) ==
  [result |-> error, effects |-> <<>>, pools |-> pools, returned |-> <<>>]

\* the steps run in order until the one that fails, if any
Run(steps, failing, pools) ==
  LET hit == {i \in DOMAIN steps : steps[i].step = failing}
  IN  IF hit = {}
      THEN [result |-> "ok", effects |-> steps, pools |-> pools, returned |-> <<>>]
      ELSE LET first == CHOOSE i \in hit : \A j \in hit : i <= j
           IN  [result |-> "error", effects |-> SubSeq(steps, 1, first),
                pools |-> pools, returned |-> <<>>]

\* (variant) only the from account is checked
validateSwapParameters_FromOnly(parameters) ==
  \/ sameToken(parameters.fromAccount, parameters.pool.tokenA)
  \/ sameToken(parameters.fromAccount, parameters.pool.tokenB)

\* validateSwapParameters: the value of validAccounts, which it asserts
validateSwapParameters(parameters) ==
  LET isSwapBetween(tokenAccount1, tokenAccount2) ==
        /\ sameToken(parameters.fromAccount, tokenAccount1)
        /\ \/ parameters.toAccount = <<>>
           \/ sameToken(parameters.toAccount[1], tokenAccount2)
  IN  \/ isSwapBetween(parameters.pool.tokenA, parameters.pool.tokenB)
      \/ isSwapBetween(parameters.pool.tokenB, parameters.pool.tokenA)

\* isReverseSwap
isReverseSwap(parameters) == sameToken(parameters.pool.tokenB, parameters.fromAccount)

\* (variant) the pool accounts are taken as for a swap from token A
SwapAccounts_Forward(parameters, toAccount) ==
  [fromAccount |-> parameters.fromAccount, poolIntoAccount |-> parameters.pool.tokenA,
   poolFromAccount |-> parameters.pool.tokenB, toAccount |-> toAccount]

\* createSwapTransactionInstruction, as far as accounts go: the user's source
\* account, the pool account the source tokens go into, the pool account that
\* pays out, and the user's destination account
SwapAccounts(parameters, toAccount) ==
  LET isReverse == isReverseSwap(parameters)
      poolIntoAccount == IF isReverse THEN parameters.pool.tokenB
                         ELSE parameters.pool.tokenA
      poolFromAccount == IF isReverse THEN parameters.pool.tokenA
                         ELSE parameters.pool.tokenB
  IN  [fromAccount |-> parameters.fromAccount, poolIntoAccount |-> poolIntoAccount,
       poolFromAccount |-> poolFromAccount, toAccount |-> toAccount]

swap(parameters, failing, pools) ==
  IF ~validateSwapParameters(parameters)
  THEN Thrown("AssertionError", pools)
  ELSE
    LET isReverse == sameToken(parameters.fromAccount, parameters.pool.tokenB)
        toToken == IF isReverse THEN parameters.pool.tokenA.mint
                   ELSE parameters.pool.tokenB.mint
        created == IF parameters.toAccount # <<>> THEN <<>>
                   ELSE <<Step("createAccountForToken", toToken.address)>>
        toAccount == IF parameters.toAccount # <<>> THEN parameters.toAccount[1]
                     ELSE AccountOf(toToken)
    IN  Run(created \o
            << Step("tokenSwapAuthority", ""),
               Step("approveInstruction", parameters.fromAccount.mint.address),
               Step("swapInstruction", SwapAccounts(parameters, toAccount)),
               Step("makeTransaction", ""),
               Step("sendTransaction", "") >>,
            failing, pools)

\* (variant) the pool token account is not checked
deposit_NoPoolTokenCheck(parameters, failing, pools) ==
  LET pool == parameters.pool
  IN  IF \/ ~sameToken(parameters.fromAAccount, pool.tokenA)
         \/ ~sameToken(parameters.fromBAccount, pool.tokenB)
      THEN Thrown("AssertionError", pools)
      ELSE Run(<< Step("tokenSwapAuthority", ""),
                  Step("depositInstruction", pool.poolToken.address),
                  Step("makeTransaction", ""),
                  Step("sendTransaction", "") >>,
               failing, pools)

deposit(parameters, failing, pools) ==
  LET pool == parameters.pool
  IN  IF \/ ~sameToken(parameters.fromAAccount, pool.tokenA)
         \/ ~sameToken(parameters.fromBAccount, pool.tokenB)
         \/ ~ (\/ parameters.poolTokenAccount = <<>>
               \/ Token_equals(parameters.poolTokenAccount[1].mint, pool.poolToken))
      THEN Thrown("AssertionError", pools)
      ELSE
        LET poolTokenAccount ==
              IF parameters.poolTokenAccount # <<>> THEN <<>>
              ELSE <<Step("createAccountForToken", pool.poolToken.address)>>
        IN  Run(<<Step("tokenSwapAuthority", "")>> \o poolTokenAccount \o
                << Step("approveInstruction", parameters.fromAAccount.mint.address),
                   Step("approveInstruction", parameters.fromBAccount.mint.address),
                   Step("depositInstruction", pool.poolToken.address),
                   Step("makeTransaction", ""),
                   Step("sendTransaction", "") >>,
                failing, pools)

withdraw(parameters, failing, pools) ==
  LET pool == parameters.pool
  IN  IF \/ ~ (\/ parameters.toAAccount = <<>>
               \/ sameToken(parameters.toAAccount[1], pool.tokenA))
         \/ ~ (\/ parameters.toBAccount = <<>>
               \/ sameToken(parameters.toBAccount[1], pool.tokenB))
         \/ ~Token_equals(parameters.fromPoolTokenAccount.mint, pool.poolToken)
      THEN Thrown("AssertionError", pools)
      ELSE
        LET toAAccount ==
              IF parameters.toAAccount # <<>> THEN <<>>
              ELSE <<Step("createAccountForToken", pool.tokenA.mint.address)>>
            toBAccount ==
              IF parameters.toBAccount # <<>> THEN <<>>
              ELSE <<Step("createAccountForToken", pool.tokenB.mint.address)>>
        IN  Run(<< Step("tokenSwapAuthority", ""),
                   Step("approveInstruction",
                        parameters.fromPoolTokenAccount.mint.address) >>
                \o toAAccount \o toBAccount \o
                << Step("withdrawInstruction", pool.poolToken.address),
                   Step("makeTransaction", ""),
                   Step("sendTransaction", "") >>,
                failing, pools)

\* a Pool object, as far as its tokens go: new Pool(address, tokenAccountAInfo,
\* tokenAccountBInfo, poolTokenInfo, ...); `previous` is its history chain,
\* newest snapshot first
Pool(address, tokenAccountAInfo, tokenAccountBInfo, poolTokenInfo) ==
  [address |-> address, tokenA |-> tokenAccountAInfo,
   tokenB |-> tokenAccountBInfo, poolToken |-> poolTokenInfo, previous |-> <<>>]

\* TokenSwap.loadTokenSwap: the swap account at the address, if there is one
loadTokenSwap(accounts, address) == {a \in accounts : a.address = address}

\* getPool: the swap account is loaded, then the token accounts and the pool
\* token it names are read; nothing is compared
getPoolAt(accounts, address, failing, pools) ==
  IF loadTokenSwap(accounts, address) = {} \/ failing = "getPool"
  THEN [result |-> "error", effects |-> <<Step("getPool", "")>>, pools |-> pools,
        returned |-> <<>>]
  ELSE LET swapInfo == CHOOSE a \in loadTokenSwap(accounts, address) : TRUE
       IN  [result |-> "ok", effects |-> <<Step("getPool", "")>>, pools |-> pools,
            returned |-> << Pool(address, AccountOf(swapInfo.tokenAccountA),
                                 AccountOf(swapInfo.tokenAccountB),
                                 swapInfo.poolToken) >>]

\* updatePool, on Pool values.  `returned` is the updated pool; `pool` is the
\* pool passed in as the call leaves it, with the copy of the updated pool
\* put into its history
updatePoolAt(accounts, pool, failing, pools) ==
  LET out == getPoolAt(accounts, pool.address, failing, pools)
  IN  IF out.result # "ok" THEN out @@ [pool |-> pool]
      ELSE LET updatedPool == out.returned[1]
               copy == [updatedPool EXCEPT !.previous = pool.previous]
               mutated == [pool EXCEPT !.previous = <<copy>>]
               previous == IF pool.previous # <<>> THEN pool.previous
                           ELSE <<mutated>>
           IN  [out EXCEPT !.returned = <<[updatedPool EXCEPT !.previous = previous]>>]
               @@ [pool |-> mutated]

RECURSIVE PoolChain(_)
\* a pool and the snapshots met by following previous from it
PoolChain(pool) ==
  <<pool>> \o (IF pool.previous = <<>> THEN <<>> ELSE PoolChain(pool.previous[1]))

RECURSIVE getPools(_, _, _)
\* getPools: getPool of every known address; one failure fails the call
getPools(accounts, failing, pools) ==
  IF pools = <<>>
  THEN [result |-> "ok", effects |-> <<>>, pools |-> pools, returned |-> <<>>]
  ELSE LET head == getPoolAt(accounts, pools[1], failing, pools)
           rest == getPools(accounts, failing, Tail(pools))
       IN  IF head.result # "ok" THEN head
           ELSE [result |-> "ok", effects |-> head.effects \o rest.effects,
                 pools |-> pools, returned |-> head.returned \o rest.returned]

\* the address of a pool created in the run (new Account())
NewPoolAddress(accounts) == 100 + Cardinality(accounts)

\* the swap account the initialization transaction of createPool sets up
InitializedSwap(parameters, accounts) ==
  [address |-> NewPoolAddress(accounts),
   tokenAccountA |-> parameters.donorAccountA.mint,
   tokenAccountB |-> parameters.donorAccountB.mint,
   poolToken |-> MintOf("mintNew", <<"authority">>)]

\* which of the two donor transfers of createPool fail: both are started
\* before either is awaited (Promise.all), so one goes on when the other fails
TransferFailures == {"transferA", "transferB", "transfers"}

\* createPool after its assertion, up to the pool read back: `accounts` of the
\* result are the swap accounts on the chain after the call.  sendTransaction
\* does not look at the result of the confirmation, so an initialization that
\* the chain confirms with an error ("transactionError") leaves no swap
\* account and shows only when getPool finds none
createPoolRun(parameters, failing, pools, accounts) ==
  LET before ==
        << Step("findProgramAddress", ""),
           Step("createToken", ""),
           Step("createAccountForToken", "poolToken"),
           Step("createAccountForToken", parameters.donorAccountA.mint.address),
           Step("createAccountForToken", parameters.donorAccountB.mint.address) >>
      transfers ==
        << Step("transfer", [source |-> parameters.donorAccountA.mint.address,
                             confirmed |-> failing \notin {"transferA", "transfers"}]),
           Step("transfer", [source |-> parameters.donorAccountB.mint.address,
                             confirmed |-> failing \notin {"transferB", "transfers"}]) >>
      after ==
        << Step("makeNewAccountInstruction", ""),
           Step("initializeSwapInstruction", ""),
           Step("makeTransaction", ""),
           Step("sendTransaction", ""),
           Step("getPool", "") >>
      started == Run(before, failing, pools)
      swapAccount == InitializedSwap(parameters, accounts)
      initialized == failing \in {"none", "getPool"}
      chain == IF initialized THEN accounts \cup {swapAccount} ELSE accounts
      createdPool == getPoolAt(chain, swapAccount.address, failing, pools)
  IN  IF started.result # "ok" THEN started @@ [accounts |-> accounts]
      ELSE IF failing \in TransferFailures
      THEN [result |-> "error", effects |-> before \o transfers, pools |-> pools,
            returned |-> <<>>, accounts |-> accounts]
      ELSE LET sent == Run(before \o transfers \o after, failing, pools)
           IN  [sent EXCEPT !.result = IF sent.result = "ok" THEN createdPool.result
                                       ELSE sent.result,
                            !.returned = createdPool.returned]
               @@ [accounts |-> chain]

\* (variant) the pool is made known as soon as its swap account is set up
createPoolSteps_KnownEarly(parameters, failing, pools, accounts) ==
  LET out == createPoolRun(parameters, failing, pools, accounts)
  IN  IF out.accounts # accounts
      THEN [out EXCEPT !.pools = Append(pools, NewPoolAddress(accounts))]
      ELSE out

\* createPool after its assertion: the created pool's address is pushed onto
\* the known pools once getPool has returned it
createPoolSteps(parameters, failing, pools, accounts) ==
  LET out == createPoolRun(parameters, failing, pools, accounts)
  IN  IF out.result = "ok"
      THEN [out EXCEPT !.pools = Append(pools, out.returned[1].address)]
      ELSE out

\* (variant) the donor accounts are not compared
createPool_Unchecked(parameters, failing, pools, accounts) ==
  createPoolSteps(parameters, failing, pools, accounts)

\* createPool; `accounts` of the result are the swap accounts on the chain
\* after the call
createPool(parameters, failing, pools, accounts) ==
  IF sameToken(parameters.donorAccountA, parameters.donorAccountB)
  THEN Thrown("AssertionError", pools) @@ [accounts |-> accounts]
  ELSE createPoolSteps(parameters, failing, pools, accounts)

mintTo(recipient, failing, pools) ==
  LET token == recipient.mint
  IN  IF ~ (/\ token.mintAuthority # <<>>
            /\ getWallet.pubkey = token.mintAuthority[1])
      THEN Thrown("AssertionError", pools)
      ELSE Run(<< Step("mintToInstruction", token.address),
                  Step("makeTransaction", ""),
                  Step("sendTransaction", "") >>,
               failing, pools)

ApiCall(api, parameters, out) ==
  [api |-> api, parameters |-> parameters, result |-> out.result,
   effects |-> out.effects, returned |-> out.returned]

ApiInit ==
  /\ lastCall = [api |-> "none", parameters |-> <<>>, result |-> "none",
                 effects |-> <<>>, returned |-> <<>>]
  /\ knownPools = <<1>>
  /\ swapAccounts = SwapAccountsOf(SomePools)

\* which step of a call fails, if any; the calls that send one transaction
\* have fewer steps that can
Failures == FailableSteps \cup {"none"}
TransactionFailures ==
  {"none", "createAccountForToken", "makeTransaction", "sendTransaction"}

Swap ==
  \E pool \in SomePools, fromAccount \in SomeAccounts,
     toAccount \in OptionalAccounts, failing \in TransactionFailures :
    LET parameters == [pool |-> pool, fromAccount |-> fromAccount,
                       toAccount |-> toAccount]
        out == swap(parameters, failing, knownPools)
    IN  /\ lastCall' = ApiCall("swap", parameters, out)
        /\ knownPools' = out.pools
        /\ UNCHANGED <<swapAccounts, histVars, serVars, extVars>>

Deposit ==
  \E pool \in SomePools, fromAAccount \in SomeAccounts,
     fromBAccount \in SomeAccounts, poolTokenAccount \in OptionalAccounts,
     failing \in TransactionFailures :
    LET parameters == [pool |-> pool, fromAAccount |-> fromAAccount,
                       fromBAccount |-> fromBAccount,
                       poolTokenAccount |-> poolTokenAccount]
        out == deposit(parameters, failing, knownPools)
    IN  /\ lastCall' = ApiCall("deposit", parameters, out)
        /\ knownPools' = out.pools
        /\ UNCHANGED <<swapAccounts, histVars, serVars, extVars>>

Withdraw ==
  \E pool \in SomePools, fromPoolTokenAccount \in SomeAccounts,
     toAAccount \in OptionalAccounts, toBAccount \in OptionalAccounts,
     failing \in TransactionFailures :
    LET parameters == [pool |-> pool,
                       fromPoolTokenAccount |-> fromPoolTokenAccount,
                       toAAccount |-> toAAccount, toBAccount |-> toBAccount]
        out == withdraw(parameters, failing, knownPools)
    IN  /\ lastCall' = ApiCall("withdraw", parameters, out)
        /\ knownPools' = out.pools
        /\ UNCHANGED <<swapAccounts, histVars, serVars, extVars>>

\* the accounts a pool is created from
DonorAccounts == {AccountOf(MintAt("mintA")), AccountOf(MintAt("mintB"))}

CreatePool ==
  /\ Cardinality(swapAccounts) < Cardinality(SomePools) + MaxCreatedPools
  /\ \E donorAccountA \in DonorAccounts, donorAccountB \in DonorAccounts,
        failing \in Failures \cup {"transactionError"} :
       LET parameters == [donorAccountA |-> donorAccountA,
                          donorAccountB |-> donorAccountB]
           out == createPool(parameters, failing, knownPools, swapAccounts)
       IN  /\ lastCall' = ApiCall("createPool", parameters, out)
           /\ knownPools' = out.pools
           /\ swapAccounts' = out.accounts
           /\ UNCHANGED <<histVars, serVars, extVars>>

\* the addresses getPool is called with: a known one, a created one, none
SomePoolAddresses == {1, 7, 100 + Cardinality(SomePools)}

GetPool ==
  \E address \in SomePoolAddresses, failing \in {"none", "getPool"} :
    LET out == getPoolAt(swapAccounts, address, failing, knownPools)
    IN  /\ lastCall' = ApiCall("getPool", [address |-> address], out)
        /\ UNCHANGED <<knownPools, swapAccounts, histVars, serVars, extVars>>

GetPools ==
  \E failing \in {"none", "getPool"} :
    LET out == [getPools(swapAccounts, failing, knownPools)
                  EXCEPT !.pools = knownPools]
    IN  /\ lastCall' = ApiCall("getPools", <<>>, out)
        /\ UNCHANGED <<knownPools, swapAccounts, histVars, serVars, extVars>>

\* the pools the application holds after the last call: the ones it returned
\* and the one an updatePool call was given
HeldPools ==
  Range(lastCall.returned)
    \cup (IF lastCall.api = "updatePool" THEN {lastCall.parameters.pool} ELSE {})

\* updatePool of a pool the application holds
UpdatePool ==
  \E pool \in HeldPools, failing \in {"none", "getPool"} :
    LET out == updatePoolAt(swapAccounts, pool, failing, knownPools)
    IN  /\ Len(PoolChain(pool)) <= MaxHistory
        /\ lastCall' = ApiCall("updatePool", [pool |-> out.pool], out)
        /\ UNCHANGED <<knownPools, swapAccounts, histVars, serVars, extVars>>

MintTo ==
  \E recipient \in SomeAccounts, failing \in TransactionFailures :
    LET out == mintTo(recipient, failing, knownPools)
    IN  /\ lastCall' = ApiCall("mintTo", [recipient |-> recipient], out)
        /\ knownPools' = out.pools
        /\ UNCHANGED <<swapAccounts, histVars, serVars, extVars>>

ApiNext ==
  \/ Swap
  \/ Deposit
  \/ Withdraw
  \/ CreatePool
  \/ MintTo
  \/ GetPool
  \/ GetPools
  \/ UpdatePool

\* C9: swap is rejected with the assertion's error, with no account created,
\* no instruction built and no chain call made, whenever fromAccount's mint is
\* neither pool.tokenA's nor pool.tokenB's, or a given toAccount's mint is not
\* the mint of the other pool side; it goes past validation exactly when
\* (from, to) matches (tokenA, tokenB) or (tokenB, tokenA), a missing
\* toAccount matching either.
C9_SwapValidation ==
  lastCall.api = "swap" =>
    LET p == lastCall.parameters
        A == p.pool.tokenA.mint.address
        B == p.pool.tokenB.mint.address
        from == p.fromAccount.mint.address
        given == p.toAccount # <<>>
        to == IF given THEN p.toAccount[1].mint.address ELSE ""
        rejected == lastCall.result = "AssertionError"
        Matches(x, y) == from = x /\ (~given \/ to = y)
    IN  /\ from \notin {A, B} => rejected
        /\ (given /\ from = A /\ to # B) => rejected
        /\ (given /\ from = B /\ to # A) => rejected
        /\ ~rejected <=> (Matches(A, B) \/ Matches(B, A))
        /\ rejected => lastCall.effects = <<>>

\* a swap from a pool side to an account of a mint that is not the other side
\* was rejected
C9_Witness ==
  /\ lastCall.api = "swap"
  /\ lastCall.result = "AssertionError"
  /\ sameToken(lastCall.parameters.fromAccount, lastCall.parameters.pool.tokenA)
  /\ lastCall.parameters.toAccount # <<>>
  /\ ~sameToken(lastCall.parameters.toAccount[1], lastCall.parameters.pool.tokenB)

\* the parameters a call must reject
BadParameters(call) ==
  LET p == call.parameters
      Wrong(given, mint) == given # <<>> /\ given[1].mint.address # mint.address
  IN  CASE call.api = "deposit" ->
             \/ p.fromAAccount.mint.address # p.pool.tokenA.mint.address
             \/ p.fromBAccount.mint.address # p.pool.tokenB.mint.address
             \/ Wrong(p.poolTokenAccount, p.pool.poolToken)
        [] call.api = "withdraw" ->
             \/ Wrong(p.toAAccount, p.pool.tokenA.mint)
             \/ Wrong(p.toBAccount, p.pool.tokenB.mint)
             \/ p.fromPoolTokenAccount.mint.address # p.pool.poolToken.address
        [] call.api = "createPool" ->
             p.donorAccountA.mint.address = p.donorAccountB.mint.address
        [] call.api = "mintTo" ->
             p.recipient.mint.mintAuthority # <<getWallet.pubkey>>
        [] OTHER -> FALSE

\* C10: deposit, withdraw, createPool and mintTo with bad parameters raise
\* their error with nothing done before it (no chain read, account creation,
\* instruction, signature request or submission), and leave the known pools
\* and the history chains as they were.
C10_FailFast ==
  [][BadParameters(lastCall') =>
       /\ lastCall'.result = "AssertionError"
       /\ lastCall'.effects = <<>>
       /\ knownPools' = knownPools
       /\ heap' = heap]_vars

\* a deposit whose token accounts fit the pool but whose pool token account is
\* of another mint was rejected, in a client that has added a pool
C10_Witness ==
  /\ lastCall.api = "deposit"
  /\ lastCall.result = "AssertionError"
  /\ sameToken(lastCall.parameters.fromAAccount, lastCall.parameters.pool.tokenA)
  /\ sameToken(lastCall.parameters.fromBAccount, lastCall.parameters.pool.tokenB)
  /\ lastCall.parameters.poolTokenAccount # <<>>
  /\ Len(knownPools) > Cardinality(SomePools)

(* ------------------------ confirmTransaction: C12 ----------------------- *)

\* most confirmTransaction calls in a run
MaxConfirmations == 2

Signatures == {"signatureA", "signatureB"}

\* a SignatureResult: err is null, or the transaction's error
SignatureResults == {"confirmed", "transactionError"}

\* (variant) a promise that takes every settlement of its sources
Promise_race_LastWins(promise, settlement) == settlement

\* Promise.race([confirmViaHttp, confirmViaSocket]): the returned promise takes
\* the settlement of a source only while it is still pending
Promise_race(promise, settlement) ==
  IF promise = "pending" THEN settlement ELSE promise

\* confirmTransaction(signature) up to its return: onSignature is subscribed,
\* connection.confirmTransaction is requested, the raced promise is pending.
\* `settled` is the order in which the sources settle, `seen` what the caller's
\* await gets
confirmTransaction(signature) ==
  [signature |-> signature, socket |-> "pending", http |-> "pending",
   promise |-> "pending", settled |-> <<>>, seen |-> <<>>]

\* a source settles: its own promise, then the reaction of the raced promise
SourceSettles(confirmation, viaSource, settlement) ==
  LET promise == Promise_race(confirmation.promise, settlement)
  IN  [confirmation EXCEPT
         ![viaSource] = settlement,
         !.promise = promise,
         !.settled = Append(@, viaSource),
         !.seen = IF promise # confirmation.promise THEN Append(@, promise) ELSE @]

ConfInit == confirmations = <<>>

ConfirmTransaction(signature) ==
  /\ Len(confirmations) < MaxConfirmations
  /\ confirmations' = Append(confirmations, confirmTransaction(signature))
  /\ UNCHANGED <<histVars, serVars, apiVars, walletVars, calcVars, globalVars>>

\* the onSignature callback runs: resolve(signatureResult)
ConfirmedViaSocket(c, signatureResult) ==
  /\ confirmations[c].socket = "pending"
  /\ confirmations' =
       [confirmations EXCEPT ![c] = SourceSettles(@, "socket", signatureResult)]
  /\ UNCHANGED <<histVars, serVars, apiVars, walletVars, calcVars, globalVars>>

\* connection.confirmTransaction resolves: the .then returns signatureResult.value
ConfirmedViaHttp(c, signatureResult) ==
  /\ confirmations[c].http = "pending"
  /\ confirmations' =
       [confirmations EXCEPT ![c] = SourceSettles(@, "http", signatureResult)]
  /\ UNCHANGED <<histVars, serVars, apiVars, walletVars, calcVars, globalVars>>

\* connection.confirmTransaction rejects: so does confirmViaHttp
HttpConfirmationFails(c) ==
  /\ confirmations[c].http = "pending"
  /\ confirmations' =
       [confirmations EXCEPT ![c] = SourceSettles(@, "http", "rejected")]
  /\ UNCHANGED <<histVars, serVars, apiVars, walletVars, calcVars, globalVars>>

ConfNext ==
  \/ \E signature \in Signatures : ConfirmTransaction(signature)
  \/ \E c \in DOMAIN confirmations : \E signatureResult \in SignatureResults :
       ConfirmedViaSocket(c, signatureResult)
  \/ \E c \in DOMAIN confirmations : \E signatureResult \in SignatureResults :
       ConfirmedViaHttp(c, signatureResult)
  \/ \E c \in DOMAIN confirmations : HttpConfirmationFails(c)

\* C12: every confirmTransaction call has both sources started; while neither
\* has settled its promise is pending and the caller has seen nothing; once a
\* source has settled the promise holds the settlement of the source that
\* settled first, and the caller has seen exactly that one outcome, whatever
\* the other source delivers afterwards.
C12_ConfirmationRace ==
  \A c \in DOMAIN confirmations :
    LET confirmation == confirmations[c]
    IN  /\ confirmation.socket \in SignatureResults \cup {"pending"}
        /\ confirmation.http \in SignatureResults \cup {"pending", "rejected"}
        /\ (confirmation.socket = "pending") = ("socket" \notin Range(confirmation.settled))
        /\ (confirmation.http = "pending") = ("http" \notin Range(confirmation.settled))
        /\ IF confirmation.settled = <<>>
           THEN confirmation.promise = "pending" /\ confirmation.seen = <<>>
           ELSE /\ confirmation.promise = confirmation[confirmation.settled[1]]
                /\ confirmation.seen = <<confirmation.promise>>

\* both arrival orders happened, each time with sources that disagree
C12_Witness ==
  \E c, d \in DOMAIN confirmations :
    /\ confirmations[c].settled = <<"http", "socket">>
    /\ confirmations[d].settled = <<"socket", "http">>
    /\ confirmations[c].http # confirmations[c].socket
    /\ confirmations[d].http # confirmations[d].socket

(* ------------------------- the wallet session: C13 ---------------------- *)

\* most wallets created, and most sendTransaction calls, in a run
MaxWallets == 2
MaxTransactions == 1

NoWallet == 0

Clusters == {"devnet", "localnet"}
WalletTypes == {"SOLLET", "LOCAL"}

\* createWallet: a new wallet object for the cluster's network; it has not yet
\* reported that it is connected, and the promise of its connect is pending
createWallet(type, cluster) ==
  [type |-> type, network |-> cluster, state |-> "created", resolved |-> FALSE]

\* Wallet.disconnect: the wallet is no longer connected
Wallet_disconnect(w) == [w EXCEPT !.state = "disconnected"]

\* getConnection(cluster): the memoised connection of the cluster's network;
\* the cluster becomes the current one
getConnection(cluster) == [connection |-> cluster, currentCluster |-> cluster]

WalletInit ==
  /\ wallet = NoWallet
  /\ connection = "none"
  /\ wallets = <<>>
  /\ transactions = <<>>
  /\ currentCluster = "none"

\* connect(cluster, type) up to its return: the singletons are assigned; the
\* wallet that was the singleton before is not touched
Connect(cluster, type) ==
  /\ Len(wallets) < MaxWallets
  /\ wallets' = Append(wallets, createWallet(type, cluster))
  /\ wallet' = Len(wallets) + 1
  /\ connection' = getConnection(cluster).connection
  /\ currentCluster' = getConnection(cluster).currentCluster
  /\ UNCHANGED <<transactions, histVars, serVars, apiVars, confVars, calcVars, globalVars>>

\* a wallet reports that it is connected: the listener connect registered on
\* it resolves the promise with that wallet
WalletEmitsConnect(w) ==
  /\ wallets[w].state = "created"
  /\ wallets' = [wallets EXCEPT ![w].state = "connected", ![w].resolved = TRUE]
  /\ UNCHANGED <<wallet, connection, transactions, currentCluster,
                 histVars, serVars, apiVars, confVars, calcVars, globalVars>>

\* disconnect(): wallet?.disconnect() on the singleton
Disconnect ==
  /\ wallet # NoWallet
  /\ wallets[wallet].state # "disconnected"
  /\ wallets' = [wallets EXCEPT ![wallet] = Wallet_disconnect(@)]
  /\ UNCHANGED <<wallet, connection, transactions, currentCluster,
                 histVars, serVars, apiVars, confVars, calcVars, globalVars>>

\* sendTransaction up to `await wallet.sign(transaction)`
SendTransaction ==
  /\ Len(transactions) < MaxTransactions
  /\ transactions' =
       Append(transactions,
         IF wallet = NoWallet \/ connection = "none"
         THEN [st |-> "Connect first", signer |-> NoWallet, session |-> "none",
               sentOver |-> "none", awaitedOn |-> "none", confirmedOn |-> NoWallet]
         ELSE [st |-> "signing", signer |-> wallet, session |-> connection,
               sentOver |-> "none", awaitedOn |-> "none", confirmedOn |-> NoWallet])
  /\ UNCHANGED <<wallet, connection, wallets, currentCluster,
                 histVars, serVars, apiVars, confVars, calcVars, globalVars>>

\* the wallet has signed: connection.sendRawTransaction on the singleton
\* connection as it is now
WalletSigns(t) ==
  /\ transactions[t].st = "signing"
  /\ transactions' = [transactions EXCEPT ![t].st = "submitting",
                                          ![t].sentOver = connection]
  /\ UNCHANGED <<wallet, connection, wallets, currentCluster,
                 histVars, serVars, apiVars, confVars, calcVars, globalVars>>

\* sendRawTransaction has answered with the signature: awaitConfirmation calls
\* confirmTransaction, which waits on getConnection(), the connection of the
\* cluster that is current now
TransactionSubmitted(t) ==
  /\ transactions[t].st = "submitting"
  /\ transactions' = [transactions EXCEPT ![t].st = "confirming",
                                          ![t].awaitedOn = currentCluster]
  /\ UNCHANGED <<wallet, connection, wallets, currentCluster,
                 histVars, serVars, apiVars, confVars, calcVars, globalVars>>

\* some other part of the client asks for the connection of a cluster
\* (APIFactory(cluster) does when it is first called for the cluster)
GetConnection(cluster) ==
  /\ currentCluster # cluster
  /\ currentCluster' = getConnection(cluster).currentCluster
  /\ UNCHANGED <<wallet, connection, wallets, transactions,
                 histVars, serVars, apiVars, confVars, calcVars, globalVars>>

\* awaitConfirmation after confirmTransaction resolved: CONFIRMED is emitted on
\* the singleton wallet as it is now
TransactionConfirmed(t) ==
  /\ transactions[t].st = "confirming"
  /\ transactions' = [transactions EXCEPT ![t].st = "confirmed",
                                          ![t].confirmedOn = wallet]
  /\ UNCHANGED <<wallet, connection, wallets, currentCluster,
                 histVars, serVars, apiVars, confVars, calcVars, globalVars>>

WalletNext ==
  \/ \E cluster \in Clusters : \E type \in WalletTypes : Connect(cluster, type)
  \/ \E w \in DOMAIN wallets : WalletEmitsConnect(w)
  \/ Disconnect
  \/ SendTransaction
  \/ \E t \in DOMAIN transactions : WalletSigns(t)
  \/ \E t \in DOMAIN transactions : TransactionSubmitted(t)
  \/ \E t \in DOMAIN transactions : TransactionConfirmed(t)
  \/ \E cluster \in Clusters : GetConnection(cluster)

\* C13 as stated: at any time at most one wallet is connected, and it is the
\* singleton (a wallet replaced by a later connect is no longer connected);
\* the singleton connection is the one of the last connect; a transaction is
\* sent and confirmed with the pair it was started with; and a connect promise
\* is resolved only for a wallet that has emitted its connect event.
C13_SingleWalletSession ==
  /\ Cardinality({w \in DOMAIN wallets : wallets[w].state = "connected"}) <= 1
  /\ \A w \in DOMAIN wallets : wallets[w].state = "connected" => w = wallet
  /\ wallet # NoWallet => connection = wallets[wallet].network
  /\ \A t \in DOMAIN transactions :
       transactions[t].signer # NoWallet =>
         /\ transactions[t].sentOver \in {"none", wallets[transactions[t].signer].network}
         /\ transactions[t].confirmedOn \in {NoWallet, transactions[t].signer}
  /\ \A w \in DOMAIN wallets : wallets[w].resolved => wallets[w].state # "created"

(* ----------------------- amounts as Decimals: C14 ----------------------- *)

\* most decimals of a token in a run
MaxDecimals == 3

\* significant digits the Decimal library keeps in the result of an
\* arithmetic operation (its default; the code does not configure it)
Decimal_precision == 20

RECURSIVE StripLeadingZeros(_)
StripLeadingZeros(ds) ==
  IF ds # <<>> /\ Head(ds) = 0 THEN StripLeadingZeros(Tail(ds)) ELSE ds

RECURSIVE StripTrailingZeros(_)
StripTrailingZeros(ds) ==
  IF ds # <<>> /\ ds[Len(ds)] = 0
  THEN StripTrailingZeros(SubSeq(ds, 1, Len(ds) - 1)) ELSE ds

\* a non-negative Decimal: the value digits * 10^exp, digits without leading
\* or trailing zeros (so that equal values are equal records); zero is <<>>
BigDecimal(ds, exp) ==
  LET lead == StripLeadingZeros(ds)
      coefficient == StripTrailingZeros(lead)
  IN  IF coefficient = <<>> THEN [digits |-> <<>>, exp |-> 0]
      ELSE [digits |-> coefficient, exp |-> exp + (Len(lead) - Len(coefficient))]

RECURSIVE Increment(_)
\* the digits of n + 1
Increment(ds) ==
  IF ds = <<>> THEN <<1>>
  ELSE IF ds[Len(ds)] = 9
       THEN Append(Increment(SubSeq(ds, 1, Len(ds) - 1)), 0)
       ELSE [ds EXCEPT ![Len(ds)] = @ + 1]

\* x without its n least significant digits, rounded half up (the library's
\* default rounding mode)
RoundAway(x, n) ==
  IF n <= 0 THEN x
  ELSE IF n > Len(x.digits) THEN BigDecimal(<<>>, 0)
  ELSE LET kept == SubSeq(x.digits, 1, Len(x.digits) - n)
           next == x.digits[Len(x.digits) - n + 1]
       IN  BigDecimal(IF next >= 5 THEN Increment(kept) ELSE kept, x.exp + n)

SignificantDigits(x) == Len(x.digits)
DecimalPlaces(x) == IF x.exp < 0 THEN 0 - x.exp ELSE 0

\* the rounding of every arithmetic result to the precision
toSignificantDigits(x, sd) == RoundAway(x, SignificantDigits(x) - sd)

\* Decimal.toDecimalPlaces(dp) and Decimal.round()
toDecimalPlaces(x, dp) == RoundAway(x, DecimalPlaces(x) - dp)
Decimal_round(x) == toDecimalPlaces(x, 0)

\* x.div(10 ** k) and x.mul(10 ** k)
Decimal_divPow10(x, k) ==
  toSignificantDigits(BigDecimal(x.digits, x.exp - k), Decimal_precision)
Decimal_mulPow10(x, k) ==
  toSignificantDigits(BigDecimal(x.digits, x.exp + k), Decimal_precision)

\* (variant) the minor amount is handed on unscaled
minorAmountToMajor_Unscaled(minorAmount, token) ==
  toDecimalPlaces(minorAmount, token.decimals)

minorAmountToMajor(minorAmount, token) ==
  toDecimalPlaces(Decimal_divPow10(minorAmount, token.decimals), token.decimals)

majorAmountToMinor(majorAmount, token) ==
  Decimal_round(Decimal_mulPow10(majorAmount, token.decimals))

\* integer amounts: small ones, the largest u64 (20 digits), and amounts of
\* more digits than the precision
SomeMinorAmounts ==
  { <<>>, <<1>>, <<5>>, <<1, 0, 0>>, <<1, 2, 3, 4, 5>>, <<9, 9, 9, 5>>,
    <<1,8,4,4,6,7,4,4,0,7,3,7,0,9,5,5,1,6,1,5>>,
    <<1,0,0,0,0,0,0,0,0,0,0,0,0,0,0,0,0,0,0,0,0,0,0,0>>,
    <<1,0,0,0,0,0,0,0,0,0,0,0,0,0,0,0,0,0,0,0,1>>,
    <<9,9,9,9,9,9,9,9,9,9,9,9,9,9,9,9,9,9,9,9,9,5>> }

SomeDecimals == 0..MaxDecimals

\* amounts in major denomination: an integer amount with some decimal places
SomeMajorAmounts ==
  {BigDecimal(ds, 0 - places) : ds \in SomeMinorAmounts, places \in 0..(MaxDecimals + 1)}

CalcIdle == calc = [op |-> "none"]

\* a minor amount is shown in major denomination and taken back
ConvertMinorAmount(ds, decimals) ==
  LET token == [decimals |-> decimals]
      minorAmount == BigDecimal(ds, 0)
      major == minorAmountToMajor(minorAmount, token)
  IN  /\ calc' = [op |-> "minorAmountToMajor", amount |-> minorAmount,
                  decimals |-> decimals, converted |-> major,
                  back |-> majorAmountToMinor(major, token)]
      /\ UNCHANGED <<histVars, serVars, apiVars, confVars, walletVars, globalVars>>

\* a major amount is put in minor denomination and shown again
ConvertMajorAmount(majorAmount, decimals) ==
  LET token == [decimals |-> decimals]
      minor == majorAmountToMinor(majorAmount, token)
  IN  /\ calc' = [op |-> "majorAmountToMinor", amount |-> majorAmount,
                  decimals |-> decimals, converted |-> minor,
                  back |-> minorAmountToMajor(minor, token)]
      /\ UNCHANGED <<histVars, serVars, apiVars, confVars, walletVars, globalVars>>

AmountNext ==
  \/ \E ds \in SomeMinorAmounts : \E decimals \in SomeDecimals :
       ConvertMinorAmount(ds, decimals)
  \/ \E majorAmount \in SomeMajorAmounts : \E decimals \in SomeDecimals :
       ConvertMajorAmount(majorAmount, decimals)

\* C14 (amended): an integer minor amount of at most 20 significant digits
\* (every u64 token amount is one) comes back unchanged from
\* majorAmountToMinor(minorAmountToMajor(x, T), T), and a major amount of at
\* most d decimal places and at most 20 significant digits comes back
\* unchanged from minorAmountToMajor(majorAmountToMinor(y, T), T).
C14_AmountRoundTrip ==
  /\ calc.op = "minorAmountToMajor"
       /\ SignificantDigits(calc.amount) <= Decimal_precision
       => calc.back = calc.amount
  /\ calc.op = "majorAmountToMinor"
       /\ DecimalPlaces(calc.amount) <= calc.decimals
       /\ SignificantDigits(calc.amount) <= Decimal_precision
       => calc.back = calc.amount

\* the largest u64 amount went through a token with decimals and came back
C14_Witness ==
  /\ calc.op = "minorAmountToMajor"
  /\ SignificantDigits(calc.amount) = Decimal_precision
  /\ calc.decimals > 0
  /\ DecimalPlaces(calc.converted) = calc.decimals
  /\ calc.back = calc.amount

\* C14 as stated: every non-negative integer minor amount, and every major
\* amount of at most d decimal places, comes back unchanged.
C14_Original ==
  /\ calc.op = "minorAmountToMajor" => calc.back = calc.amount
  /\ calc.op = "majorAmountToMinor" /\ DecimalPlaces(calc.amount) <= calc.decimals
       => calc.back = calc.amount

(* ------------------- pool pricing and slippage: C15 .. C20 -------------- *)

\* amounts here are exact fractions n / d (d > 0, in lowest terms), or one of
\* the two values a Decimal division by zero gives
RECURSIVE GCD(_, _)
GCD(a, b) == IF b = 0 THEN a ELSE GCD(b, a % b)

Rational(n, d) ==
  LET g == GCD(IF n < 0 THEN 0 - n ELSE n, d)
  IN  [n |-> n \div g, d |-> d \div g]

NaN == [n |-> 0, d |-> 0]
Infinity == [n |-> 1, d |-> 0]
NonFinite == {NaN, Infinity}

\* Decimal.times, .dividedBy, .lessThanOrEqualTo, .equals, Decimal.min
times(x, y) ==
  IF x \in NonFinite \/ y \in NonFinite
  THEN (IF x = NaN \/ y = NaN \/ x = Rational(0, 1) \/ y = Rational(0, 1)
        THEN NaN ELSE Infinity)
  ELSE Rational(x.n * y.n, x.d * y.d)

dividedBy(x, y) ==
  IF x \in NonFinite \/ y \in NonFinite
  THEN (IF x = Infinity /\ y \notin NonFinite THEN Infinity ELSE NaN)
  ELSE IF y.n = 0 THEN (IF x.n = 0 THEN NaN ELSE Infinity)
  ELSE IF y.n < 0 THEN Rational((0 - x.n) * y.d, x.d * (0 - y.n))
  ELSE Rational(x.n * y.d, x.d * y.n)

lessThanOrEqualTo(x, y) ==
  /\ x \notin NonFinite
  /\ y \notin NonFinite
  /\ x.n * y.d <= y.n * x.d

Decimal_min(x, y) ==
  IF x = NaN \/ y = NaN THEN NaN
  ELSE IF x = Infinity THEN y
  ELSE IF y = Infinity THEN x
  ELSE IF lessThanOrEqualTo(x, y) THEN x ELSE y

NotAU64 == [text |-> "not a u64"]

\* toNumberU64: new Numberu64("" + number).  The text of a non-negative
\* integer is read back digit by digit; any other text is not a u64 (the
\* constructor rejects or misreads it, depending on the library)
toNumberU64(number) ==
  IF number \notin NonFinite /\ number.d = 1 /\ number.n >= 0
  THEN Rational(FromDigits(Digits(number.n, 10), 10), 1)
  ELSE NotAU64

\* the default slippage, in percent
DEFAULT_SLIPPAGE == 5

\* an optional slippage argument: <<>> when omitted
Slippage(slippage) == IF slippage = <<>> THEN DEFAULT_SLIPPAGE ELSE slippage[1]

\* adjustForSlippage: "up" is amount * (1 + slippage / 100), "down" is
\* amount * (1 - slippage / 100)
adjustForSlippage(amount, direction, slippage) ==
  LET percent == Slippage(slippage)
  IN  times(amount, Rational(IF direction = "up" THEN 100 + percent
                                                 ELSE 100 - percent, 100))

\* a pool, as far as pricing reads it
PricedPool(reserveA, reserveB, poolTokenSupply) ==
  [tokenA |-> [mint |-> MintAt("mintA"), balance |-> Rational(reserveA, 1)],
   tokenB |-> [mint |-> MintAt("mintB"), balance |-> Rational(reserveB, 1)],
   poolToken |-> [supply |-> Rational(poolTokenSupply, 1)]]

\* the failures of the pricing functions
DivisionByZero == [error |-> "DivisionByZero"]
ArithmeticError == [error |-> "ArithmeticError"]
PricingErrors == {DivisionByZero, ArithmeticError}

\* (variant) the quote is handed out whatever it leaves of the other side
calculateAmountInOtherToken_Unchecked(pool, mint, amount, bidirectional) ==
  LET fromA == ~bidirectional \/ Token_equals(mint, pool.tokenA.mint)
      reserveIn == IF fromA THEN pool.tokenA.balance ELSE pool.tokenB.balance
      reserveOut == IF fromA THEN pool.tokenB.balance ELSE pool.tokenA.balance
  IN  IF reserveIn.n = 0 THEN DivisionByZero
      ELSE times(amount, dividedBy(reserveOut, reserveIn))

\* Pool.calculateAmountInOtherToken: the amount times reserveOut / reserveIn,
\* with the sides told by the mint when bidirectional (else token A is the
\* input); a failure when the other side would be left negative
calculateAmountInOtherToken(pool, mint, amount, bidirectional) ==
  LET fromA == ~bidirectional \/ Token_equals(mint, pool.tokenA.mint)
      reserveIn == IF fromA THEN pool.tokenA.balance ELSE pool.tokenB.balance
      reserveOut == IF fromA THEN pool.tokenB.balance ELSE pool.tokenA.balance
      quote == times(amount, dividedBy(reserveOut, reserveIn))
  IN  IF reserveIn.n = 0 THEN DivisionByZero
      ELSE IF ~lessThanOrEqualTo(quote, reserveOut) THEN ArithmeticError
      ELSE quote

\* (variant) the division is made whatever reserve A is
getPoolTokenValueOfTokenAAmount_Unguarded(pool, amount) ==
  times(dividedBy(amount, pool.tokenA.balance), pool.poolToken.supply)

\* Pool.getPoolTokenValueOfTokenAAmount: amount / reserveA * poolTokenSupply
getPoolTokenValueOfTokenAAmount(pool, amount) ==
  IF pool.tokenA.balance.n = 0 THEN DivisionByZero
  ELSE times(dividedBy(amount, pool.tokenA.balance), pool.poolToken.supply)

\* the share of a reserve that a pool token amount stands for
ProportionalAmount(pool, poolTokenAmount, reserve) ==
  times(dividedBy(poolTokenAmount, pool.poolToken.supply), reserve)

\* Pool.calculateAmountsWithSlippage
calculateAmountsWithSlippage(pool, poolTokenAmount, direction, slippage) ==
  [poolTokenAmount |-> poolTokenAmount,
   tokenAAmount |->
     adjustForSlippage(ProportionalAmount(pool, poolTokenAmount, pool.tokenA.balance),
                       direction, slippage),
   tokenBAmount |->
     adjustForSlippage(ProportionalAmount(pool, poolTokenAmount, pool.tokenB.balance),
                       direction, slippage)]

\* toU64 of the token API: new u64("" + number), read as toNumberU64 reads
toU64(number) ==
  IF number \notin NonFinite /\ number.d = 1 /\ number.n >= 0
  THEN Rational(FromDigits(Digits(number.n, 10), 10), 1)
  ELSE NotAU64

\* pool.tokenSwapAuthority(): the address derived from the pool's address,
\* nonce and program
tokenSwapAuthority(pool) == [programAddress |-> "tokenSwapAuthority"]

\* tokenAPI.approveInstruction: the wallet lets the delegate take `amount`
\* from the source account
approveInstruction(sourceAccount, delegate, amount) ==
  [instruction |-> "approve", account |-> sourceAccount, delegate |-> delegate,
   owner |-> getWallet.pubkey, amount |-> toU64(amount)]

\* (variant) the quote is widened instead of narrowed
createSwapTransactionInstruction_Up(parameters) ==
  LET quote == calculateAmountInOtherToken(parameters.pool, parameters.fromMint,
                                           parameters.fromAmount, TRUE)
  IN  IF quote \in PricingErrors THEN [error |-> quote.error]
      ELSE LET minimumToAmountWithSlippage ==
                 adjustForSlippage(quote, "up", parameters.slippage)
           IN  [error |-> "none",
                minimumToAmountWithoutSlippage |-> quote,
                minimumToAmountWithSlippage |-> minimumToAmountWithSlippage,
                instruction |->
                  [amountIn |-> parameters.fromAmount,
                   minimumAmountOut |-> toNumberU64(minimumToAmountWithSlippage)]]

\* createSwapTransactionInstruction, as far as amounts go: a failure of the
\* quote leaves it before the instruction is built
createSwapTransactionInstruction(parameters) ==
  LET quote == calculateAmountInOtherToken(parameters.pool, parameters.fromMint,
                                           parameters.fromAmount, TRUE)
  IN  IF quote \in PricingErrors THEN [error |-> quote.error]
      ELSE LET minimumToAmountWithSlippage ==
                 adjustForSlippage(quote, "down", parameters.slippage)
           IN  [error |-> "none",
                minimumToAmountWithoutSlippage |-> quote,
                minimumToAmountWithSlippage |-> minimumToAmountWithSlippage,
                instruction |->
                  [amountIn |-> parameters.fromAmount,
                   minimumAmountOut |-> toNumberU64(minimumToAmountWithSlippage)]]

\* (variant) the approve instruction is put after the swap instruction
swapInstruction_ApproveLast(parameters) ==
  LET delegate == tokenSwapAuthority(parameters.pool)
      approve == approveInstruction("fromAccount", delegate, parameters.fromAmount)
      out == createSwapTransactionInstruction(
               [parameters EXCEPT !.slippage = <<DEFAULT_SLIPPAGE>>])
  IN  IF out.error # "none" THEN out
      ELSE out @@ [transaction |->
                     << [instruction |-> "swap",
                         authority |-> tokenSwapAuthority(parameters.pool),
                         amounts |-> [fromAccount |-> out.instruction.amountIn]],
                        approve >>]

\* swap, as far as amounts go: the instruction is made with the default
\* slippage, whatever slippage the parameters carry
swapInstruction(parameters) ==
  LET delegate == tokenSwapAuthority(parameters.pool)
      approve == approveInstruction("fromAccount", delegate, parameters.fromAmount)
      out == createSwapTransactionInstruction(
               [parameters EXCEPT !.slippage = <<DEFAULT_SLIPPAGE>>])
  IN  IF out.error # "none" THEN out
      ELSE out @@ [transaction |->
                     << approve,
                        [instruction |-> "swap",
                         authority |-> tokenSwapAuthority(parameters.pool),
                         amounts |-> [fromAccount |-> out.instruction.amountIn]] >>]

\* (variant) the default slippage is used, as swap does
depositInstruction_DefaultSlippage(parameters) ==
  LET pool == parameters.pool
      authority == tokenSwapAuthority(pool)
      poolTokenAmount == getPoolTokenValueOfTokenAAmount(pool, parameters.fromAAmount)
  IN  IF poolTokenAmount \in PricingErrors THEN [error |-> poolTokenAmount.error]
      ELSE LET maximumAmounts ==
                 calculateAmountsWithSlippage(pool, poolTokenAmount, "up",
                                              <<DEFAULT_SLIPPAGE>>)
               maxTokenAAmount ==
                 Decimal_min(maximumAmounts.tokenAAmount, parameters.fromABalance)
               maxTokenBAmount ==
                 Decimal_min(maximumAmounts.tokenBAmount, parameters.fromBBalance)
           IN  [error |-> "none",
                poolTokenAmount |-> poolTokenAmount,
                maximumAmounts |-> maximumAmounts,
                instruction |->
                  [poolTokenAmount |-> toNumberU64(maximumAmounts.poolTokenAmount),
                   tokenAAmount |-> toNumberU64(maxTokenAAmount),
                   tokenBAmount |-> toNumberU64(maxTokenBAmount)],
                transaction |->
                  << approveInstruction("fromAAccount", authority, maxTokenAAmount),
                     approveInstruction("fromBAccount", authority, maxTokenBAmount),
                     [instruction |-> "deposit", authority |-> authority,
                      amounts |-> [fromAAccount |-> toNumberU64(maxTokenAAmount),
                                   fromBAccount |-> toNumberU64(maxTokenBAmount)]] >>]

\* (variant) the whole balances are put into the instruction
depositInstruction_Balances(parameters) ==
  LET pool == parameters.pool
      authority == tokenSwapAuthority(pool)
      poolTokenAmount == getPoolTokenValueOfTokenAAmount(pool, parameters.fromAAmount)
  IN  IF poolTokenAmount \in PricingErrors THEN [error |-> poolTokenAmount.error]
      ELSE LET maximumAmounts ==
                 calculateAmountsWithSlippage(pool, poolTokenAmount, "up",
                                              parameters.slippage)
               maxTokenAAmount == parameters.fromABalance
               maxTokenBAmount == parameters.fromBBalance
           IN  [error |-> "none",
                poolTokenAmount |-> poolTokenAmount,
                maximumAmounts |-> maximumAmounts,
                instruction |->
                  [poolTokenAmount |-> toNumberU64(maximumAmounts.poolTokenAmount),
                   tokenAAmount |-> toNumberU64(maxTokenAAmount),
                   tokenBAmount |-> toNumberU64(maxTokenBAmount)],
                transaction |->
                  << approveInstruction("fromAAccount", authority, maxTokenAAmount),
                     approveInstruction("fromBAccount", authority, maxTokenBAmount),
                     [instruction |-> "deposit", authority |-> authority,
                      amounts |-> [fromAAccount |-> toNumberU64(maxTokenAAmount),
                                   fromBAccount |-> toNumberU64(maxTokenBAmount)]] >>]

\* (variant) the computed maximum amounts are used whatever the balances are
depositInstruction_Uncapped(parameters) ==
  LET pool == parameters.pool
      authority == tokenSwapAuthority(pool)
      poolTokenAmount == getPoolTokenValueOfTokenAAmount(pool, parameters.fromAAmount)
  IN  IF poolTokenAmount \in PricingErrors THEN [error |-> poolTokenAmount.error]
      ELSE LET maximumAmounts ==
                 calculateAmountsWithSlippage(pool, poolTokenAmount, "up",
                                              parameters.slippage)
               maxTokenAAmount ==
                 maximumAmounts.tokenAAmount
               maxTokenBAmount ==
                 maximumAmounts.tokenBAmount
           IN  [error |-> "none",
                poolTokenAmount |-> poolTokenAmount,
                maximumAmounts |-> maximumAmounts,
                instruction |->
                  [poolTokenAmount |-> toNumberU64(maximumAmounts.poolTokenAmount),
                   tokenAAmount |-> toNumberU64(maxTokenAAmount),
                   tokenBAmount |-> toNumberU64(maxTokenBAmount)],
                transaction |->
                  << approveInstruction("fromAAccount", authority, maxTokenAAmount),
                     approveInstruction("fromBAccount", authority, maxTokenBAmount),
                     [instruction |-> "deposit", authority |-> authority,
                      amounts |-> [fromAAccount |-> toNumberU64(maxTokenAAmount),
                                   fromBAccount |-> toNumberU64(maxTokenBAmount)]] >>]

\* deposit, as far as amounts go, from `getPoolTokenValueOfTokenAAmount` to
\* TokenSwap.depositInstruction: you cannot deposit more than you have
depositInstruction(parameters) ==
  LET pool == parameters.pool
      authority == tokenSwapAuthority(pool)
      poolTokenAmount == getPoolTokenValueOfTokenAAmount(pool, parameters.fromAAmount)
  IN  IF poolTokenAmount \in PricingErrors THEN [error |-> poolTokenAmount.error]
      ELSE LET maximumAmounts ==
                 calculateAmountsWithSlippage(pool, poolTokenAmount, "up",
                                              parameters.slippage)
               maxTokenAAmount ==
                 Decimal_min(maximumAmounts.tokenAAmount, parameters.fromABalance)
               maxTokenBAmount ==
                 Decimal_min(maximumAmounts.tokenBAmount, parameters.fromBBalance)
           IN  [error |-> "none",
                poolTokenAmount |-> poolTokenAmount,
                maximumAmounts |-> maximumAmounts,
                instruction |->
                  [poolTokenAmount |-> toNumberU64(maximumAmounts.poolTokenAmount),
                   tokenAAmount |-> toNumberU64(maxTokenAAmount),
                   tokenBAmount |-> toNumberU64(maxTokenBAmount)],
                transaction |->
                  << approveInstruction("fromAAccount", authority, maxTokenAAmount),
                     approveInstruction("fromBAccount", authority, maxTokenBAmount),
                     [instruction |-> "deposit", authority |-> authority,
                      amounts |-> [fromAAccount |-> toNumberU64(maxTokenAAmount),
                                   fromBAccount |-> toNumberU64(maxTokenBAmount)]] >>]

\* withdraw, as far as amounts go
withdrawInstruction(parameters) ==
  LET minimumAmounts ==
        calculateAmountsWithSlippage(parameters.pool, parameters.fromPoolTokenAmount,
                                     "down", parameters.slippage)
      authority == tokenSwapAuthority(parameters.pool)
  IN  [error |-> "none",
       minimumAmounts |-> minimumAmounts,
       instruction |->
         [poolTokenAmount |-> toNumberU64(minimumAmounts.poolTokenAmount),
          tokenAAmount |-> toNumberU64(minimumAmounts.tokenAAmount),
          tokenBAmount |-> toNumberU64(minimumAmounts.tokenBAmount)],
       transaction |->
         << approveInstruction("fromPoolTokenAccount", authority,
                               minimumAmounts.poolTokenAmount),
            [instruction |-> "withdraw", authority |-> authority,
             amounts |-> [fromPoolTokenAccount |->
                            toNumberU64(minimumAmounts.poolTokenAmount)]] >>]

\* (variant) the division is made whatever the supply is
proportionOfTotalSupply_Unguarded(tokenAccount) ==
  LET scaling == Rational(100000, 1)
  IN  dividedBy(dividedBy(times(tokenAccount.balance, scaling),
                          tokenAccount.mint.supply), scaling)

\* TokenAccount.proportionOfTotalSupply; scaling is 10 to the power 5
proportionOfTotalSupply(tokenAccount) ==
  IF tokenAccount.mint.supply = Rational(0, 1) THEN Rational(0, 1)
  ELSE LET scaling == Rational(100000, 1)
       IN  dividedBy(dividedBy(times(tokenAccount.balance, scaling),
                               tokenAccount.mint.supply), scaling)

\* reserves, pool token supplies, amounts, balances and slippages (percent)
SomeReserves == {0, 3, 1000, 2000}
SomeSupplies == {10, 500}
SomeAmounts == {0, 1, 100, 1000, 5000}
SomeFunds == {0, 150, 10000}
SomeSlippages == {<<>>, <<0>>, <<5>>, <<50>>, <<150>>}

\* a pool that was created has pool tokens: createPool mints them
PricedPools ==
  {PricedPool(reserveA, reserveB, supply) :
     reserveA \in SomeReserves, reserveB \in SomeReserves, supply \in SomeSupplies}

AdjustForSlippage(amount, slippage) ==
  /\ calc.op = "none"
  /\ calc' = [op |-> "adjustForSlippage",
              amount |-> Rational(amount, 1), slippage |-> slippage,
              up |-> adjustForSlippage(Rational(amount, 1), "up", slippage),
              down |-> adjustForSlippage(Rational(amount, 1), "down", slippage)]
  /\ UNCHANGED <<histVars, serVars, apiVars, confVars, walletVars, globalVars>>

SwapAmounts(pool, fromMint, fromAmount, slippage) ==
  LET parameters == [pool |-> pool, fromMint |-> fromMint,
                     fromAmount |-> Rational(fromAmount, 1), slippage |-> slippage]
  IN  /\ calc.op = "none"
      /\ calc' = [op |-> "swap", parameters |-> parameters,
                  out |-> swapInstruction(parameters)]
      /\ UNCHANGED <<histVars, serVars, apiVars, confVars, walletVars, globalVars>>

DepositAmounts(pool, fromAAmount, fromABalance, fromBBalance, slippage) ==
  LET parameters == [pool |-> pool, fromAAmount |-> Rational(fromAAmount, 1),
                     fromABalance |-> Rational(fromABalance, 1),
                     fromBBalance |-> Rational(fromBBalance, 1),
                     slippage |-> slippage]
  IN  /\ calc.op = "none"
      /\ calc' = [op |-> "deposit", parameters |-> parameters,
                  out |-> depositInstruction(parameters)]
      /\ UNCHANGED <<histVars, serVars, apiVars, confVars, walletVars, globalVars>>

WithdrawAmounts(pool, fromPoolTokenAmount, slippage) ==
  LET parameters == [pool |-> pool,
                     fromPoolTokenAmount |-> Rational(fromPoolTokenAmount, 1),
                     slippage |-> slippage]
  IN  /\ calc.op = "none"
      /\ calc' = [op |-> "withdraw", parameters |-> parameters,
                  out |-> withdrawInstruction(parameters)]
      /\ UNCHANGED <<histVars, serVars, apiVars, confVars, walletVars, globalVars>>

ProportionOfTotalSupply(balance, supply) ==
  LET tokenAccount == [mint |-> [supply |-> Rational(supply, 1)],
                       balance |-> Rational(balance, 1)]
  IN  /\ calc.op = "none"
      /\ calc' = [op |-> "proportionOfTotalSupply", tokenAccount |-> tokenAccount,
                  result |-> proportionOfTotalSupply(tokenAccount)]
      /\ UNCHANGED <<histVars, serVars, apiVars, confVars, walletVars, globalVars>>

PricingNext ==
  \/ \E amount \in SomeAmounts : \E slippage \in SomeSlippages :
       AdjustForSlippage(amount, slippage)
  \/ \E pool \in PricedPools : \E fromMint \in {MintAt("mintA"), MintAt("mintB")} :
       \E fromAmount \in SomeAmounts : \E slippage \in SomeSlippages :
         SwapAmounts(pool, fromMint, fromAmount, slippage)
  \/ \E pool \in PricedPools : \E fromAAmount \in SomeAmounts :
       \E fromABalance \in SomeFunds : \E fromBBalance \in SomeFunds :
         \E slippage \in SomeSlippages :
           DepositAmounts(pool, fromAAmount, fromABalance, fromBBalance, slippage)
  \/ \E pool \in PricedPools : \E fromPoolTokenAmount \in SomeAmounts :
       \E slippage \in SomeSlippages :
         WithdrawAmounts(pool, fromPoolTokenAmount, slippage)
  \/ \E balance \in SomeAmounts : \E supply \in SomeReserves :
       ProportionOfTotalSupply(balance, supply)

\* the reserve a swap pays into, and the one it is paid from
ReserveIn(parameters) ==
  IF Token_equals(parameters.fromMint, parameters.pool.tokenA.mint)
  THEN parameters.pool.tokenA.balance ELSE parameters.pool.tokenB.balance
ReserveOut(parameters) ==
  IF Token_equals(parameters.fromMint, parameters.pool.tokenA.mint)
  THEN parameters.pool.tokenB.balance ELSE parameters.pool.tokenA.balance

C16_ZeroSlippage ==
  /\ calc.op = "adjustForSlippage" /\ calc.slippage = <<0>> =>
       calc.up = calc.amount /\ calc.down = calc.amount
  /\ calc.op = "deposit" /\ calc.parameters.slippage = <<0>>
       /\ calc.out.error = "none" =>
       /\ calc.out.maximumAmounts.tokenAAmount =
            ProportionalAmount(calc.parameters.pool, calc.out.poolTokenAmount,
                               calc.parameters.pool.tokenA.balance)
       /\ calc.out.maximumAmounts.tokenBAmount =
            ProportionalAmount(calc.parameters.pool, calc.out.poolTokenAmount,
                               calc.parameters.pool.tokenB.balance)
  /\ calc.op = "withdraw" /\ calc.parameters.slippage = <<0>> =>
       /\ calc.out.minimumAmounts.tokenAAmount =
            ProportionalAmount(calc.parameters.pool,
                               calc.parameters.fromPoolTokenAmount,
                               calc.parameters.pool.tokenA.balance)
       /\ calc.out.minimumAmounts.tokenBAmount =
            ProportionalAmount(calc.parameters.pool,
                               calc.parameters.fromPoolTokenAmount,
                               calc.parameters.pool.tokenB.balance)

\* a deposit with slippage 0 whose amounts the default slippage would change
C16_Witness ==
  /\ calc.op = "deposit"
  /\ calc.parameters.slippage = <<0>>
  /\ calc.out.error = "none"
  /\ calc.out.maximumAmounts.tokenAAmount.n > 0
  /\ calc.out.maximumAmounts.tokenBAmount.n > 0

\* C17: in a pool with reserveA = 1000 and reserveB = 2000, a deposit of 100
\* of token A with slippage 0 computes poolTokenAmount = 100/1000 * supply and
\* a token B amount of 200, and with balances of at least 100 and 200 the
\* instruction carries token A 100 and token B 200.
C17_ProportionalDeposit ==
  calc.op = "deposit"
    /\ calc.parameters.pool.tokenA.balance = Rational(1000, 1)
    /\ calc.parameters.pool.tokenB.balance = Rational(2000, 1)
    /\ calc.parameters.fromAAmount = Rational(100, 1)
    /\ calc.parameters.slippage = <<0>>
  => /\ calc.out.error = "none"
     /\ calc.out.poolTokenAmount =
          times(Rational(100, 1000), calc.parameters.pool.poolToken.supply)
     /\ calc.out.maximumAmounts.tokenBAmount = Rational(200, 1)
     /\ lessThanOrEqualTo(Rational(100, 1), calc.parameters.fromABalance)
          /\ lessThanOrEqualTo(Rational(200, 1), calc.parameters.fromBBalance)
        => /\ calc.out.instruction.tokenAAmount = Rational(100, 1)
           /\ calc.out.instruction.tokenBAmount = Rational(200, 1)

\* the scenario, with a token A balance above the deposit
C17_Witness ==
  /\ calc.op = "deposit"
  /\ calc.parameters.pool.tokenA.balance = Rational(1000, 1)
  /\ calc.parameters.pool.tokenB.balance = Rational(2000, 1)
  /\ calc.parameters.fromAAmount = Rational(100, 1)
  /\ calc.parameters.slippage = <<0>>
  /\ calc.parameters.fromABalance = Rational(150, 1)
  /\ calc.parameters.fromBBalance = Rational(10000, 1)
  /\ calc.out.instruction.tokenBAmount = Rational(200, 1)

\* C18: getPoolTokenValueOfTokenAAmount(amount) is amount / reserveA *
\* poolTokenSupply when reserveA > 0; when reserveA = 0 it fails with a
\* division-by-zero error and deposit builds no instruction.
C18_PoolTokenValue ==
  calc.op = "deposit" =>
    IF calc.parameters.pool.tokenA.balance.n > 0
    THEN /\ calc.out.error = "none"
         /\ calc.out.poolTokenAmount =
              times(dividedBy(calc.parameters.fromAAmount,
                              calc.parameters.pool.tokenA.balance),
                    calc.parameters.pool.poolToken.supply)
    ELSE /\ calc.out.error = "DivisionByZero"
         /\ "instruction" \notin DOMAIN calc.out

\* a deposit of a positive amount into a pool without token A
C18_Witness ==
  /\ calc.op = "deposit"
  /\ calc.parameters.pool.tokenA.balance.n = 0
  /\ calc.parameters.fromAAmount.n > 0
  /\ calc.out.error = "DivisionByZero"

C20_ZeroSupply ==
  calc.op = "proportionOfTotalSupply" =>
    /\ calc.result \notin NonFinite
    /\ calc.tokenAccount.mint.supply = Rational(0, 1) => calc.result = Rational(0, 1)

\* an account with a balance in a token without supply
C20_Witness ==
  /\ calc.op = "proportionOfTotalSupply"
  /\ calc.tokenAccount.mint.supply = Rational(0, 1)
  /\ calc.tokenAccount.balance.n > 0
  /\ calc.result = Rational(0, 1)

(* --------------- proportionOfTotalSupply's precision: C21 --------------- *)

\* C21: for every balance and every supply > 0, proportionOfTotalSupply()
\* times 10^5 is an integer (the result has 5 decimal places), and for
\* balance <= supply the result lies between 0 and 1.
C21_FiveDecimalPlaces ==
  (calc.op = "proportionOfTotalSupply" /\ calc.tokenAccount.mint.supply.n > 0) =>
    /\ times(calc.result, Rational(100000, 1)).d = 1
    /\ lessThanOrEqualTo(calc.tokenAccount.balance, calc.tokenAccount.mint.supply) =>
         /\ lessThanOrEqualTo(Rational(0, 1), calc.result)
         /\ lessThanOrEqualTo(calc.result, Rational(1, 1))

(* ------------------ the history chain is acyclic: C23 ------------------- *)

\* C23: after any sequence of (possibly overlapping) update calls on the
\* tracked entities and on snapshots returned by earlier updates, no entity is
\* reachable from itself by following previous, so a walk along previous (as
\* serialize makes) ends.
C23_HistoryAcyclic ==
  \A e \in DOMAIN heap : e \notin Range(ChainFrom(heap, e, Len(heap)))

\* an update of the original pool and a later started update of a snapshot an
\* earlier update returned overlapped, and both have completed
C23_Witness ==
  \E c, d \in Returned("updatePool") :
    /\ c < d
    /\ calls[c].arg = originalPool
    /\ calls[d].arg # originalPool
    /\ calls[d].result < calls[c].result
    /\ Len(Chain(heap, calls[d].arg)) >= 2

(* ------------------ the two tokens of a pool: C22 ----------------------- *)

C25_ApprovalMatchesUse ==
  (calc.op \in {"swap", "deposit", "withdraw"} /\ calc.out.error = "none") =>
    LET tx == calc.out.transaction
        use == tx[Len(tx)]
        approvals == 1..(Len(tx) - 1)
    IN  /\ use.instruction = calc.op
        /\ use.authority = tokenSwapAuthority(calc.parameters.pool)
        /\ \A i \in approvals :
             /\ tx[i].instruction = "approve"
             /\ tx[i].delegate = use.authority
             /\ tx[i].account \in DOMAIN use.amounts
             /\ tx[i].amount = use.amounts[tx[i].account]
        /\ \A account \in DOMAIN use.amounts :
             \E i \in approvals : tx[i].account = account
        /\ calc.op = "swap" => use.amounts.fromAccount = calc.parameters.fromAmount
        /\ calc.op = "withdraw" =>
             use.amounts.fromPoolTokenAccount
               = toNumberU64(calc.out.minimumAmounts.poolTokenAmount)

\* a deposit with two approvals of amounts above 0 before the deposit instruction
C25_Witness ==
  /\ calc.op = "deposit"
  /\ calc.out.error = "none"
  /\ Len(calc.out.transaction) = 3
  /\ calc.out.transaction[1].amount # NotAU64
  /\ calc.out.transaction[2].amount # NotAU64
  /\ calc.out.transaction[1].amount.n > 0
  /\ calc.out.transaction[2].amount.n > 0

\* C27: the minimum to-amount of the swap instruction is the unadjusted quote
\* adjusted down by parameters.slippage when the caller gives one, and by
\* DEFAULT_SLIPPAGE only when the caller gives none.
C27_SwapHonoursSlippage ==
  (calc.op = "swap" /\ calc.out.error = "none") =>
    calc.out.minimumToAmountWithSlippage
      = adjustForSlippage(calc.out.minimumToAmountWithoutSlippage, "down",
                          calc.parameters.slippage)

(* ---------------------- the direction of a swap: C26 -------------------- *)

\* the swap instruction among the effects of a call, if it got that far
SwapInstructionOf(call) ==
  {call.effects[i].on : i \in {j \in DOMAIN call.effects :
                                 call.effects[j].step = "swapInstruction"}}

\* C26: for every swap that passes validation on a pool with tokenA.mint #
\* tokenB.mint, the pool account that receives the source tokens has the mint
\* of fromAccount, the pool account that pays out has the mint of the
\* destination account, and a destination account created because toAccount
\* was missing is created for the mint of the pool side opposite to fromAccount.
C26_SwapDirection ==
  (/\ lastCall.api = "swap"
   /\ lastCall.result # "AssertionError"
   /\ ~sameToken(lastCall.parameters.pool.tokenA, lastCall.parameters.pool.tokenB)) =>
    LET p == lastCall.parameters
        opposite == IF sameToken(p.fromAccount, p.pool.tokenA)
                    THEN p.pool.tokenB ELSE p.pool.tokenA
    IN  /\ \A accounts \in SwapInstructionOf(lastCall) :
             /\ accounts.fromAccount = p.fromAccount
             /\ sameToken(accounts.poolIntoAccount, p.fromAccount)
             /\ sameToken(accounts.poolFromAccount, accounts.toAccount)
             /\ accounts.poolIntoAccount \in {p.pool.tokenA, p.pool.tokenB}
             /\ accounts.poolFromAccount \in {p.pool.tokenA, p.pool.tokenB}
             /\ p.toAccount # <<>> => accounts.toAccount = p.toAccount[1]
             /\ p.toAccount = <<>> =>
                  /\ sameToken(accounts.toAccount, opposite)
                  /\ lastCall.effects[1]
                       = Step("createAccountForToken", opposite.mint.address)
        /\ (p.toAccount = <<>> /\ lastCall.effects # <<>>) =>
             lastCall.effects[1] = Step("createAccountForToken", opposite.mint.address)

\* a swap from token B without a destination account got its transaction sent
C26_Witness ==
  /\ lastCall.api = "swap"
  /\ lastCall.result = "ok"
  /\ sameToken(lastCall.parameters.fromAccount, lastCall.parameters.pool.tokenB)
  /\ lastCall.parameters.toAccount = <<>>
  /\ SwapInstructionOf(lastCall) # {}

(* ------------------- createPool's partial failures: C28 ----------------- *)

\* C28: createPool appends the new pool's address to the known pools only
\* after the initialization transaction was confirmed and the pool was read
\* back; if a step fails (an account creation, one of the two concurrent donor
\* transfers, the initialization) the list is unchanged, and the call does
\* nothing but the steps of creating a pool: what was confirmed before the
\* failure, donor transfers included, is not undone.
C28_CreatePoolRegistersOnSuccess ==
  [][lastCall'.api = "createPool" =>
       LET call == lastCall'
           steps == {call.effects[i].step : i \in DOMAIN call.effects}
       IN  /\ knownPools' # knownPools <=> call.result = "ok"
           /\ call.result = "ok" =>
                /\ knownPools' = Append(knownPools, call.returned[1].address)
                /\ {"sendTransaction", "getPool"} \subseteq steps
                /\ call.effects[Len(call.effects)].step = "getPool"
                /\ loadTokenSwap(swapAccounts', call.returned[1].address) # {}
                /\ loadTokenSwap(swapAccounts, call.returned[1].address) = {}
           /\ call.result # "ok" =>
                /\ knownPools' = knownPools
                /\ call.returned = <<>>
           /\ swapAccounts \subseteq swapAccounts'
           /\ steps \subseteq
                {"findProgramAddress", "createToken", "createAccountForToken",
                 "transfer", "makeNewAccountInstruction",
                 "initializeSwapInstruction", "makeTransaction",
                 "sendTransaction", "getPool"}]_vars

\* createPool failed because the transfer from donor A failed, while the
\* transfer from donor B, begun at the same time, was confirmed
C28_Witness ==
  /\ lastCall.api = "createPool"
  /\ lastCall.result = "error"
  /\ \E i, j \in DOMAIN lastCall.effects :
       /\ i < j
       /\ lastCall.effects[i].step = "transfer"
       /\ lastCall.effects[j].step = "transfer"
       /\ ~lastCall.effects[i].on.confirmed
       /\ lastCall.effects[j].on.confirmed
  /\ knownPools = <<1>>

(* -------------------- one send, one session: C29 ------------------------ *)

\* C29: for every sendTransaction call, the wallet that signs, the connection
\* that submits, the connection the confirmation is awaited on and the wallet
\* that emits CONFIRMED belong to the connect session that was current when
\* the call started, also when connect or getConnection(otherCluster) is
\* called while the call is suspended.
C29_OneSendOneSession ==
  \A t \in DOMAIN transactions :
    transactions[t].signer # NoWallet =>
      /\ wallets[transactions[t].signer].network = transactions[t].session
      /\ transactions[t].sentOver \in {"none", transactions[t].session}
      /\ transactions[t].awaitedOn \in {"none", transactions[t].session}
      /\ transactions[t].confirmedOn \in {NoWallet, transactions[t].signer}

(* ------------------ the global loading counter: C30 --------------------- *)

\* most async thunks dispatched in a run
MaxThunks == 3

\* the thunk of the global slice and a thunk of another slice, and the messages
\* their errors carry
ThunkTypes == {"global/getAvailableTokens", "other/thunk"}
ErrorMessages == {"Connect first", "Error collecting pool data"}

\* initialState of the global slice
initialState ==
  [loading |-> 0, error |-> <<>>, availableTokens |-> <<>>,
   epochInfo |-> [epoch |-> 0, absoluteSlot |-> 0]]

\* the actions an async thunk dispatches: type/pending first, then
\* type/fulfilled with the payload or type/rejected with the error
ThunkAction(type, phase, payload) ==
  [type |-> type, phase |-> phase, payload |-> payload]

\* the matchers of utils/redux: by the phase an action's type ends with
isPendingAction(action) == action.phase = "pending"
isRejectedAction(action) == action.phase = "rejected"
isFulfilledAction(action) == action.phase = "fulfilled"

\* Math.max
Math_max(a, b) == IF a >= b THEN a ELSE b

\* (variant) a rejected action leaves the counter as it is
globalReducer_RejectedKeepsLoading(state, action) ==
  LET cased == IF action.type = "global/getAvailableTokens" /\ action.phase = "fulfilled"
               THEN [state EXCEPT !.availableTokens = action.payload]
               ELSE IF action.type = "global/updateEpochInfo"
               THEN [state EXCEPT !.epochInfo = action.payload]
               ELSE state
  IN  IF isPendingAction(action) THEN [cased EXCEPT !.loading = cased.loading + 1]
      ELSE IF isRejectedAction(action)
      THEN [cased EXCEPT !.error = <<action.payload>>]
      ELSE IF isFulfilledAction(action)
      THEN [cased EXCEPT !.loading = Math_max(cased.loading - 1, 0)]
      ELSE cased

\* the reducer of the global slice: the case reducer of the action's type, if
\* any, then the matcher that matches
globalReducer(state, action) ==
  LET cased == IF action.type = "global/getAvailableTokens" /\ action.phase = "fulfilled"
               THEN [state EXCEPT !.availableTokens = action.payload]
               ELSE IF action.type = "global/updateEpochInfo"
               THEN [state EXCEPT !.epochInfo = action.payload]
               ELSE state
  IN  IF isPendingAction(action) THEN [cased EXCEPT !.loading = cased.loading + 1]
      ELSE IF isRejectedAction(action)
      THEN [cased EXCEPT !.loading = Math_max(cased.loading - 1, 0),
                         !.error = <<action.payload>>]
      ELSE IF isFulfilledAction(action)
      THEN [cased EXCEPT !.loading = Math_max(cased.loading - 1, 0)]
      ELSE cased

GlobalInit ==
  /\ global = initialState
  /\ thunks = <<>>

\* a thunk is dispatched: its pending action reaches the reducer
ThunkPending(type) ==
  /\ Len(thunks) < MaxThunks
  /\ thunks' = Append(thunks, [type |-> type, phase |-> "pending", error |-> <<>>])
  /\ global' = globalReducer(global, ThunkAction(type, "pending", <<>>))
  /\ UNCHANGED <<histVars, serVars, apiVars, confVars, walletVars, calcVars>>

\* the payload creator of a pending thunk has returned
ThunkFulfilled(t) ==
  /\ thunks[t].phase = "pending"
  /\ thunks' = [thunks EXCEPT ![t].phase = "fulfilled"]
  /\ global' = globalReducer(global,
                 ThunkAction(thunks[t].type, "fulfilled", <<"token">>))
  /\ UNCHANGED <<histVars, serVars, apiVars, confVars, walletVars, calcVars>>

\* the payload creator of a pending thunk has thrown
ThunkRejected(t, message) ==
  /\ thunks[t].phase = "pending"
  /\ thunks' = [thunks EXCEPT ![t].phase = "rejected", ![t].error = <<message>>]
  /\ global' = globalReducer(global, ThunkAction(thunks[t].type, "rejected", message))
  /\ UNCHANGED <<histVars, serVars, apiVars, confVars, walletVars, calcVars>>

\* the epoch listener dispatches updateEpochInfo, a plain action
UpdateEpochInfo(absoluteSlot) ==
  /\ global.epochInfo.absoluteSlot # absoluteSlot
  /\ global' = globalReducer(global,
                 ThunkAction("global/updateEpochInfo", "",
                             [epoch |-> 0, absoluteSlot |-> absoluteSlot]))
  /\ UNCHANGED <<thunks, histVars, serVars, apiVars, confVars, walletVars, calcVars>>

GlobalNext ==
  \/ \E type \in ThunkTypes : ThunkPending(type)
  \/ \E t \in DOMAIN thunks : ThunkFulfilled(t)
  \/ \E t \in DOMAIN thunks : \E message \in ErrorMessages : ThunkRejected(t, message)
  \/ \E absoluteSlot \in 0..1 : UpdateEpochInfo(absoluteSlot)

\* the thunks in flight
InFlight(ts) == {t \in DOMAIN ts : ts[t].phase = "pending"}

\* C30: starting from loading = 0, after any interleaving of pending,
\* fulfilled and rejected actions in which each settled action was pending
\* before, loading is never negative and is the number of actions in flight,
\* so it is 0 exactly when none is in flight; a rejected action sets error to
\* its message and a fulfilled action leaves error unchanged.
C30_LoadingCounter ==
  [][/\ global'.loading >= 0
     /\ global'.loading = Cardinality(InFlight(thunks'))
     /\ global'.loading = 0 <=> InFlight(thunks') = {}
     /\ global.loading = Cardinality(InFlight(thunks))
     /\ \A t \in DOMAIN thunks :
          /\ (thunks[t].phase = "pending" /\ thunks'[t].phase = "rejected") =>
               global'.error = thunks'[t].error
          /\ (thunks[t].phase = "pending" /\ thunks'[t].phase = "fulfilled") =>
               global'.error = global.error]_vars

\* two thunks are in flight after a third was rejected and left its message
C30_Witness ==
  /\ Cardinality(InFlight(thunks)) = 2
  /\ global.loading = 2
  /\ \E t \in DOMAIN thunks : thunks[t].phase = "rejected"
  /\ global.error # <<>>

(* --------------------------- specifications ----------------------------- *)

Init ==
  HistInit /\ SerIdle /\ ApiInit /\ ConfInit /\ WalletInit /\ CalcIdle /\ GlobalInit

\* updates of the tracked pool and token account
Spec == Init /\ [][Next]_vars

\* a wallet token account refreshed, serialized and rebuilt
InitSerialize ==
  HistInit /\ SerInit /\ ApiInit /\ ConfInit /\ WalletInit /\ CalcIdle /\ GlobalInit

SpecSerialize == InitSerialize /\ [][SerNext]_vars

\* calls of the pool and token API
SpecApi == Init /\ [][ApiNext]_vars

\* conversions between minor and major amounts
SpecAmounts == Init /\ [][AmountNext]_vars

\* pricing and slippage calculations
SpecPricing == Init /\ [][PricingNext]_vars

\* the wallet session
SpecWallet == Init /\ [][WalletNext]_vars

\* confirmations of submitted transactions
SpecConfirm == Init /\ [][ConfNext]_vars

\* the global slice and the thunks of the application
SpecGlobal == Init /\ [][GlobalNext]_vars

=============================================================================
